---------------------------- MODULE Spec2Model ----------------------------
(***************************************************************************)
(* A model of taslite: a sqlite-backed database for tasl instances.        *)
(*                                                                         *)
(* The model follows the better-sqlite3 version of the DB class (create,   *)
(* import, export, get, has, count, push, set, merge), the shredder and    *)
(* reassembler of utils.ts, the streaming Decoder and the Encoder.         *)
(*                                                                         *)
(* Representation.                                                         *)
(*   - a tasl type is a record with a `kind` field, as in the tasl AST;    *)
(*     product components and coproduct options are sequences of           *)
(*     [key, type] in canonical order, so that position i of the sequence  *)
(*     is index i-1 of tasl.forComponents / tasl.forOptions;               *)
(*   - a tasl value is a record with a `kind` field; a product value maps  *)
(*     component keys to values;                                           *)
(*   - a column name e_i1_.._in is represented by the path <<i1,..,in>>;   *)
(*   - a cell is [int |-> n], [text |-> s] or Null;                        *)
(*   - a thrown exception is a result record with ok = FALSE and the       *)
(*     message in err;                                                     *)
(*   - a byte is an integer in 0..255, a Buffer a sequence of bytes.       *)
(***************************************************************************)
EXTENDS Integers, Sequences, FiniteSets, TLC

VARIABLES
    schema,     \* DB.#schema: the sequence of [key, type] classes
    tables,     \* the class tables c<k>: class index -> (id -> row)
    schemas,    \* the rows of the table `schemas`: id -> blob
    fk,         \* the connection's "PRAGMA foreign_keys"
    last,       \* what the last call on the handle returned or threw
    source,     \* the chunks of the stream that DB.import was given
    generator   \* the frame of the async generator of DB.export

vars == <<schema, tables, schemas, fk, last, source, generator>>

(***************************************************************************)
(* Bounds of the model.                                                    *)
(***************************************************************************)
MaxId == 1          \* element ids and reference targets range over 0..MaxId
MaxMerge == 2       \* a merge call carries at most MaxMerge elements

Ids == 0 .. MaxId

(***************************************************************************)
(* Generic helpers.                                                        *)
(***************************************************************************)
\* `const r = ...; k(r)`: the value r is computed once and used by k
Bind(r, k(_)) == k(r)

RECURSIVE Flatten(_)
Flatten(ss) == IF ss = <<>> THEN <<>> ELSE Head(ss) \o Flatten(Tail(ss))

Max(a, b) == IF a >= b THEN a ELSE b

RECURSIVE SetMax(_)
SetMax(S) == IF S = {} THEN -1
             ELSE Bind(CHOOSE y \in S : TRUE, LAMBDA x : Max(x, SetMax(S \ {x})))

Range(s) == {s[i] : i \in DOMAIN s}

(***************************************************************************)
(* tasl types and values.                                                  *)
(***************************************************************************)
uri == [kind |-> "uri"]
literal(datatype) == [kind |-> "literal", datatype |-> datatype]
product(components) == [kind |-> "product", components |-> components]
coproduct(options) == [kind |-> "coproduct", options |-> options]
reference(key) == [kind |-> "reference", key |-> key]
unit == product(<<>>)

uriValue(s) == [kind |-> "uri", value |-> s]
literalValue(s) == [kind |-> "literal", value |-> s]
productValue(components) == [kind |-> "product", components |-> components]
coproductValue(key, value) == [kind |-> "coproduct", key |-> key, value |-> value]
referenceValue(id) == [kind |-> "reference", id |-> id]
unitValue == productValue(<<>>)

xsdBoolean == "xsd:boolean"
xsdByte == "xsd:byte"
xsdUnsignedByte == "xsd:unsignedByte"
xsdString == "xsd:string"
xsdLong == "xsd:long"
xsdInt == "xsd:int"
xsdShort == "xsd:short"
xsdUnsignedInt == "xsd:unsignedInt"
xsdUnsignedShort == "xsd:unsignedShort"
xsdDouble == "xsd:double"
xsdFloat == "xsd:float"
xsdUnsignedLong == "xsd:unsignedLong"

\* schema.indexOfKey(key): the 0-based class index, or -1 where tasl throws
\* "key not found"
indexOfKey(sch, key) ==
    IF \E i \in DOMAIN sch : sch[i].key = key
    THEN (CHOOSE i \in DOMAIN sch : sch[i].key = key) - 1
    ELSE -1

classType(sch, index) == sch[index + 1].type

\* tasl.indexOfOption(type, key): the 0-based option index, -1 where it throws
indexOfOption(type, key) ==
    IF \E i \in DOMAIN type.options : type.options[i].key = key
    THEN (CHOOSE i \in DOMAIN type.options : type.options[i].key = key) - 1
    ELSE -1

(***************************************************************************)
(* Cells.                                                                  *)
(***************************************************************************)
Null == [null |-> TRUE]
IntCell(n) == [int |-> n]
TextCell(s) == [text |-> s]
isNumber(cell) == DOMAIN cell = {"int"}
isString(cell) == DOMAIN cell = {"text"}

getPropertyName(path) == path

(***************************************************************************)
(* 64-bit integers and the doubles that hold them.  The numbers of the     *)
(* columns of xsd:long and xsd:unsignedLong are records [negative, bits],  *)
(* the bits of the magnitude with the least significant bit first and no   *)
(* leading zero; a BigInt is such a record too.                            *)
(***************************************************************************)
wideDatatypes == {xsdLong, xsdUnsignedLong}

wide(negative, bits) == [negative |-> negative /\ bits # <<>>, bits |-> bits]

zeros(n) == [i \in 1 .. n |-> 0]
ones(n) == [i \in 1 .. n |-> 1]

\* the bits without leading zeros
trim(bits) ==
    IF \A i \in DOMAIN bits : bits[i] = 0 THEN <<>>
    ELSE SubSeq(bits, 1, CHOOSE i \in DOMAIN bits :
                            bits[i] = 1 /\ \A j \in i + 1 .. Len(bits) : bits[j] = 0)

\* the bits of a byte, and of bytes in big-endian order
bitsOfByte(byte) == [i \in 1 .. 8 |-> (byte \div 2^(i - 1)) % 2]
bitsOfBytes(bytes) ==
    Flatten([k \in 1 .. Len(bytes) |-> bitsOfByte(bytes[Len(bytes) + 1 - k])])

\* the n bytes, in big-endian order, of the low 8n bits
byteOfBits(bits, k) ==
    bits[8 * k + 1] + 2 * bits[8 * k + 2] + 4 * bits[8 * k + 3] + 8 * bits[8 * k + 4]
    + 16 * bits[8 * k + 5] + 32 * bits[8 * k + 6] + 64 * bits[8 * k + 7]
    + 128 * bits[8 * k + 8]
bytesOfBits(bits, n) ==
    Bind(SubSeq(bits \o zeros(8 * n), 1, 8 * n), LAMBDA padded :
        [k \in 1 .. n |-> byteOfBits(padded, n - k)])

\* magnitudes: a < b, a + 1, and the complement of each bit
lessBits(a, b) ==
    IF Len(a) # Len(b) THEN Len(a) < Len(b)
    ELSE \E i \in DOMAIN a :
            /\ a[i] < b[i]
            /\ \A j \in i + 1 .. Len(a) : a[j] = b[j]

incrementBits(bits) ==
    IF \A i \in DOMAIN bits : bits[i] = 1 THEN zeros(Len(bits)) \o <<1>>
    ELSE Bind(CHOOSE i \in DOMAIN bits :
                    bits[i] = 0 /\ \A j \in 1 .. i - 1 : bits[j] = 1,
              LAMBDA low :
                 [i \in DOMAIN bits |->
                     IF i < low THEN 0 ELSE IF i = low THEN 1 ELSE bits[i]])

complement(bits) == [i \in DOMAIN bits |-> 1 - bits[i]]

\* a < b and a > b on BigInts and numbers
lessThan(a, b) ==
    IF a.negative # b.negative THEN a.negative
    ELSE IF a.negative THEN lessBits(b.bits, a.bits)
    ELSE lessBits(a.bits, b.bits)
greaterThan(a, b) == lessThan(b, a)

\* Number.MAX_SAFE_INTEGER and Number.MIN_SAFE_INTEGER: 2^53 - 1 and its
\* negative; a double has 53 significant bits
significand == 53
MAX_SAFE_INTEGER == wide(FALSE, ones(significand))
MIN_SAFE_INTEGER == wide(TRUE, ones(significand))

\* the double nearest to an integer: the leading `significand` bits, rounded
\* to nearest, ties to even
toDouble(bits) ==
    IF Len(bits) <= significand THEN bits
    ELSE Bind(Len(bits) - significand, LAMBDA dropped :
            Bind(SubSeq(bits, dropped + 1, Len(bits)), LAMBDA kept :
                zeros(dropped)
                \o (IF /\ bits[dropped] = 1
                       /\ \/ kept[1] = 1
                          \/ \E i \in 1 .. dropped - 1 : bits[i] = 1
                    THEN incrementBits(kept) ELSE kept)))

\* a number as the rest of the model holds it: an integer below 2^31 as
\* itself, a larger one as its bits
RECURSIVE natOfBits(_)
natOfBits(bits) == IF bits = <<>> THEN 0 ELSE Head(bits) + 2 * natOfBits(Tail(bits))
numberOfBits(bits) == IF Len(bits) < 32 THEN natOfBits(bits) ELSE wide(FALSE, bits)

\* Number(bigint)
Number(value) == wide(value.negative, toDouble(value.bits))

\* Number.isSafeInteger on the number of an integer
isSafeIntegerNumber(value) == ~lessBits(MAX_SAFE_INTEGER.bits, value.bits)

\* buffer.readBigUInt64BE and buffer.readBigInt64BE on 8 bytes
readBigUInt64BE(bytes) == wide(FALSE, trim(bitsOfBytes(bytes)))
readBigInt64BE(bytes) ==
    IF bytes[1] >= 128
    THEN wide(TRUE, trim(incrementBits(complement(bitsOfBytes(bytes)))))
    ELSE readBigUInt64BE(bytes)

\* the integer that a decimal lexical form of the model denotes
decimal(s) ==
    CASE s = "0" -> wide(FALSE, <<>>)
      [] s = "1" -> wide(FALSE, ones(1))
      [] s = "7" -> wide(FALSE, ones(3))
      [] s = "255" -> wide(FALSE, ones(8))
      [] s = "-1" -> wide(TRUE, ones(1))
      [] s = "9007199254740991" -> wide(FALSE, ones(53))
      [] s = "-9007199254740991" -> wide(TRUE, ones(53))
      [] s = "9007199254740992" -> wide(FALSE, zeros(53) \o <<1>>)
      [] s = "-9007199254740992" -> wide(TRUE, zeros(53) \o <<1>>)
      [] s = "9007199254740993" -> wide(FALSE, <<1>> \o zeros(52) \o <<1>>)
      [] s = "-9007199254740993" -> wide(TRUE, <<1>> \o zeros(52) \o <<1>>)
      [] s = "9223372036854775807" -> wide(FALSE, ones(63))
      [] s = "-9223372036854775808" -> wide(TRUE, zeros(63) \o <<1>>)
      [] s = "18446744073709551615" -> wide(FALSE, ones(64))

decimals ==
    {"0", "1", "7", "255", "-1", "9007199254740991", "-9007199254740991", "9007199254740992",
     "-9007199254740992", "9007199254740993", "-9007199254740993",
     "9223372036854775807", "-9223372036854775808", "18446744073709551615"}

\* parseInt and Number.prototype.toString on the numbers of the 64-bit
\* columns: the double nearest to the integer, and its shortest decimal
parseIntWide(s) == Number(decimal(s))
wideToString(value) ==
    IF \E s \in decimals : decimal(s) = value
    THEN CHOOSE s \in decimals : decimal(s) = value
    ELSE "?"

(***************************************************************************)
(* utils.ts: the Type-to-Table compiler.                                   *)
(***************************************************************************)
integerDatatypes ==
    {xsdBoolean, xsdLong, xsdInt, xsdShort, xsdByte, xsdUnsignedLong, xsdUnsignedInt,
     xsdUnsignedShort, xsdUnsignedByte}

\* getProperties: the columns of a type in pre-order, each with its path,
\* its type and whether it lies under a coproduct option
RECURSIVE getProperties(_, _, _)
getProperties(type, path, optional) ==
    CASE type.kind \in {"uri", "literal", "reference"} ->
            << [path |-> path, type |-> type, optional |-> optional] >>
      [] type.kind = "product" ->
            Flatten([i \in DOMAIN type.components |->
                getProperties(type.components[i].type, Append(path, i - 1), optional)])
      [] type.kind = "coproduct" ->
            << [path |-> path, type |-> type, optional |-> optional] >>
            \o Flatten([i \in DOMAIN type.options |->
                getProperties(type.options[i].type, Append(path, i - 1), TRUE)])

\* getPropertyType: the column's SQL type; a reference column carries
\* REFERENCES c<index>(id), given here as the referenced class index
getPropertyType(sch, property) ==
    CASE property.kind = "uri" -> [sql |-> "TEXT", references |-> -1]
      [] property.kind = "literal" ->
            [sql |-> IF property.datatype \in integerDatatypes
                     THEN "INTEGER" ELSE "TEXT",
             references |-> -1]
      [] property.kind = "coproduct" -> [sql |-> "INTEGER", references |-> -1]
      [] property.kind = "reference" ->
            [sql |-> "INTEGER", references |-> indexOfKey(sch, property.key)]

(***************************************************************************)
(* utils.ts: the shredder.                                                 *)
(***************************************************************************)
\* parseInt on the lexical forms of the model; -999 stands for NaN
parseInt(s) ==
    CASE s = "0" -> 0 [] s = "1" -> 1 [] s = "7" -> 7 [] s = "-1" -> -1
      [] s = "255" -> 255
      [] OTHER -> -999

\* Number.prototype.toString on the integers of the model
numberToString(n) ==
    CASE n = 0 -> "0" [] n = 1 -> "1" [] n = 7 -> "7" [] n = -1 -> "-1"
      [] n = 255 -> "255"
      [] OTHER -> "?"

serializeLiteralValue(datatype, value) ==
    IF datatype \in integerDatatypes
    THEN IF datatype = xsdBoolean
         THEN IF value = "true" \/ value = "1" THEN [ok |-> TRUE, cell |-> IntCell(1)]
              ELSE IF value = "false" \/ value = "0" THEN [ok |-> TRUE, cell |-> IntCell(0)]
              ELSE [ok |-> FALSE, cell |-> Null]
         ELSE IF datatype \in wideDatatypes
         THEN IF value \in decimals /\ isSafeIntegerNumber(parseIntWide(value))
              THEN [ok |-> TRUE, cell |-> IntCell(parseIntWide(value))]
              ELSE [ok |-> FALSE, cell |-> Null]
         ELSE IF parseInt(value) # -999
              THEN [ok |-> TRUE, cell |-> IntCell(parseInt(value))]
              ELSE [ok |-> FALSE, cell |-> Null]
    ELSE [ok |-> TRUE, cell |-> TextCell(value)]

\* an option that was not chosen yields nothing
nullValuesOmitted(type, path) == <<>>

\* the triples getPropertyValues yields for an option that was not chosen
nullValues(type, path) ==
    Bind(getProperties(type, path, FALSE), LAMBDA ps :
        [j \in DOMAIN ps |->
            [path |-> ps[j].path, type |-> ps[j].type, null |-> TRUE,
             value |-> unitValue]])

\* the results of the parts of a composite value, joined
joinValues(parts) ==
    [ok |-> \A i \in DOMAIN parts : parts[i].ok,
     items |-> Flatten([i \in DOMAIN parts |-> parts[i].items])]

\* getPropertyValues: the (path, type, value | null) triples of a value, in
\* column order; ok = FALSE where the code throws "internal type error"
RECURSIVE getPropertyValues(_, _, _)
getPropertyValues(type, value, path) ==
    CASE type.kind \in {"uri", "literal", "reference"} /\ value.kind = type.kind ->
            [ok |-> TRUE,
             items |-> << [path |-> path, type |-> type, null |-> FALSE, value |-> value] >>]
      [] type.kind = "product" /\ value.kind = "product" ->
            IF \E i \in DOMAIN type.components :
                    type.components[i].key \notin DOMAIN value.components
            THEN [ok |-> FALSE, items |-> <<>>]
            ELSE joinValues([i \in DOMAIN type.components |->
                        getPropertyValues(type.components[i].type,
                                          value.components[type.components[i].key],
                                          Append(path, i - 1))])
      [] type.kind = "coproduct" /\ value.kind = "coproduct" ->
            joinValues(
                << [ok |-> TRUE,
                    items |-> << [path |-> path, type |-> type, null |-> FALSE,
                                  value |-> value] >>] >>
                \o [i \in DOMAIN type.options |->
                    IF type.options[i].key = value.key
                    THEN getPropertyValues(type.options[i].type, value.value,
                                           Append(path, i - 1))
                    ELSE [ok |-> TRUE,
                          items |-> nullValues(type.options[i].type,
                                               Append(path, i - 1))]])
      [] OTHER -> [ok |-> FALSE, items |-> <<>>]

\* the cell serializeValue assigns to params[name] for one triple
serializeCell(item) ==
    IF item.null THEN [ok |-> TRUE, cell |-> Null]
    ELSE CASE item.type.kind = "uri" -> [ok |-> TRUE, cell |-> TextCell(item.value.value)]
           [] item.type.kind = "literal" ->
                serializeLiteralValue(item.type.datatype, item.value.value)
           [] item.type.kind = "coproduct" ->
                [ok |-> indexOfOption(item.type, item.value.key) >= 0,
                 cell |-> IntCell(indexOfOption(item.type, item.value.key))]
           [] item.type.kind = "reference" -> [ok |-> TRUE, cell |-> IntCell(item.value.id)]

\* the params object built from the triples and their cells
paramsOf(items, cells) ==
    IF \A i \in DOMAIN cells : cells[i].ok
    THEN [ok |-> TRUE,
          params |-> [name \in {getPropertyName(items[i].path) : i \in DOMAIN items} |->
                        cells[CHOOSE i \in DOMAIN items :
                                 getPropertyName(items[i].path) = name].cell]]
    ELSE [ok |-> FALSE, params |-> <<>>]

\* serializeValue: the row of a value, column name -> cell
serializeValue(type, value) ==
    Bind(getPropertyValues(type, value, <<>>), LAMBDA pv :
        IF pv.ok
        THEN paramsOf(pv.items, [i \in DOMAIN pv.items |-> serializeCell(pv.items[i])])
        ELSE [ok |-> FALSE, params |-> <<>>])

(***************************************************************************)
(* utils.ts: the reassembler.                                              *)
(***************************************************************************)
parseLiteralValue(datatype, cell) ==
    IF datatype \in integerDatatypes
    THEN IF ~isNumber(cell) THEN [ok |-> FALSE, value |-> ""]
         ELSE IF datatype = xsdBoolean
              THEN IF cell.int = 0 THEN [ok |-> TRUE, value |-> "false"]
                   ELSE IF cell.int = 1 THEN [ok |-> TRUE, value |-> "true"]
                   ELSE [ok |-> FALSE, value |-> ""]
              ELSE IF datatype \in wideDatatypes
              THEN [ok |-> TRUE, value |-> wideToString(cell.int)]
              ELSE [ok |-> TRUE, value |-> numberToString(cell.int)]
    ELSE IF ~isString(cell) THEN [ok |-> FALSE, value |-> ""]
         ELSE [ok |-> TRUE, value |-> cell.text]

\* the cell row[name]; a missing property reads as undefined, which fails
\* every typeof test like null does
cellOf(row, name) == IF name \in DOMAIN row THEN row[name] ELSE Null

\* a parsed part wrapped by its parent, or the exception passed on
wrapValue(v, wrap(_)) ==
    IF v.ok THEN [ok |-> TRUE, value |-> wrap(v.value)]
    ELSE [ok |-> FALSE, value |-> unitValue]

\* the product value of the parsed components
joinComponents(type, parts) ==
    IF \A i \in DOMAIN parts : parts[i].ok
    THEN [ok |-> TRUE,
          value |-> productValue(
             [key \in {type.components[i].key : i \in DOMAIN type.components} |->
                parts[CHOOSE i \in DOMAIN type.components :
                         type.components[i].key = key].value])]
    ELSE [ok |-> FALSE, value |-> unitValue]

\* parseValue: the value of a stored row; ok = FALSE where the code throws
RECURSIVE parseValue(_, _, _)
parseValue(type, path, row) ==
    CASE type.kind = "uri" ->
            IF isString(cellOf(row, getPropertyName(path)))
            THEN [ok |-> TRUE, value |-> uriValue(cellOf(row, getPropertyName(path)).text)]
            ELSE [ok |-> FALSE, value |-> unitValue]
      [] type.kind = "literal" ->
            wrapValue(parseLiteralValue(type.datatype, cellOf(row, getPropertyName(path))),
                      literalValue)
      [] type.kind = "product" ->
            joinComponents(type, [i \in DOMAIN type.components |->
                parseValue(type.components[i].type, Append(path, i - 1), row)])
      [] type.kind = "coproduct" ->
            IF ~isNumber(cellOf(row, getPropertyName(path)))
            THEN [ok |-> FALSE, value |-> unitValue]
            ELSE Bind(cellOf(row, getPropertyName(path)).int, LAMBDA index :
                    IF index + 1 \notin DOMAIN type.options   \* optionAtIndex throws
                    THEN [ok |-> FALSE, value |-> unitValue]
                    ELSE wrapValue(
                            parseValue(type.options[index + 1].type,
                                       Append(path, index), row),
                            LAMBDA v : coproductValue(type.options[index + 1].key, v)))
      [] type.kind = "reference" ->
            IF isNumber(cellOf(row, getPropertyName(path)))
            THEN [ok |-> TRUE,
                  value |-> referenceValue(cellOf(row, getPropertyName(path)).int)]
            ELSE [ok |-> FALSE, value |-> unitValue]

(***************************************************************************)
(* The storage engine, as the DB class uses it: one table per class with   *)
(* the columns that setSchema declares, the upsert and insert statements   *)
(* that the constructor prepares, and the foreign_keys pragma.             *)
(* A connection is a record [tables, fk, iterators]: the rows of each       *)
(* table, the foreign_keys pragma and the number of open iterators.        *)
(***************************************************************************)
\* the columns of table c<index>, from the CREATE TABLE of setSchema
tableColumns(sch, index) ==
    Bind(getProperties(classType(sch, index), <<>>, FALSE), LAMBDA ps :
        [i \in DOMAIN ps |->
            [name |-> getPropertyName(ps[i].path),
             notNull |-> ~ps[i].optional,
             references |-> getPropertyType(sch, ps[i].type).references]])

\* a row that holds a non-null reference to an id missing from the
\* referenced table (a row may reference its own id)
brokenReference(cols, tbls, index, id, cells) ==
    \E c \in cols :
        /\ c.references >= 0
        /\ c.name \in DOMAIN cells
        /\ isNumber(cells[c.name])
        /\ cells[c.name].int \notin DOMAIN tbls[c.references]
        /\ ~(c.references = index /\ cells[c.name].int = id)

busy == "This database connection is busy executing a query"

\* what running a statement with the bound row reports before it writes
constraintError(cols, conn, index, id, cells) ==
    IF conn.iterators > 0 THEN busy
    ELSE IF \E c \in cols : c.name \notin DOMAIN cells
    THEN "Missing named parameter"
    ELSE IF \E c \in cols : c.notNull /\ cells[c.name] = Null
    THEN "NOT NULL constraint failed"
    ELSE IF conn.fk /\ brokenReference(cols, conn.tables, index, id, cells)
    THEN "FOREIGN KEY constraint failed"
    ELSE ""

statementError(sch, conn, index, id, cells) ==
    constraintError(Range(tableColumns(sch, index)), conn, index, id, cells)

\* INSERT OR IGNORE: a statement that keeps the row an id already holds
writeRowIgnore(conn, index, id, cells) ==
    IF id \in DOMAIN conn.tables[index] THEN conn
    ELSE [conn EXCEPT !.tables[index] = [i \in DOMAIN @ \cup {id} |->
                                            IF i = id THEN cells ELSE @[i]]]

\* an upsert that keeps the old cell of a column whose new cell is null
writeRowKeep(conn, index, id, cells) ==
    [conn EXCEPT
        !.tables[index] = [i \in DOMAIN conn.tables[index] \cup {id} |->
            IF i # id THEN conn.tables[index][i]
            ELSE IF id \notin DOMAIN conn.tables[index] THEN cells
            ELSE [c \in DOMAIN cells |->
                    IF cells[c] = Null /\ c \in DOMAIN conn.tables[index][id]
                    THEN conn.tables[index][id][c] ELSE cells[c]]]]

\* an update without the conflict target: every row of the table is set
writeRowEverywhere(conn, index, id, cells) ==
    [conn EXCEPT
        !.tables[index] = [i \in DOMAIN conn.tables[index] \cup {id} |-> cells]]

\* ON CONFLICT (id) DO UPDATE SET every column = excluded.column
writeRow(conn, index, id, cells) ==
    [conn EXCEPT
        !.tables[index] = [i \in DOMAIN conn.tables[index] \cup {id} |->
                              IF i = id THEN cells ELSE conn.tables[index][i]]]

\* the statement's effect, given what it reports
runStatement(err, conn, index, id, cells) ==
    IF err # "" THEN [ok |-> FALSE, err |-> err, conn |-> conn, id |-> -1]
    ELSE [ok |-> TRUE, err |-> "", conn |-> writeRow(conn, index, id, cells), id |-> id]

\* INSERT INTO c<index> VALUES (:id, ...) ON CONFLICT (id) DO UPDATE SET ...
upsert(sch, conn, index, id, cells) ==
    runStatement(statementError(sch, conn, index, id, cells), conn, index, id, cells)

\* a rowid taken from the number of rows
nextRowidFromCount(conn, index) == Cardinality(DOMAIN conn.tables[index])

\* the rowid AUTOINCREMENT assigns: one more than the largest ever used;
\* no operation deletes a row, so that is the largest stored, and 1 on a
\* table that never held a positive id
nextRowid(conn, index) == Max(0, SetMax(DOMAIN conn.tables[index])) + 1

\* INSERT INTO c<index> (...) VALUES (...) RETURNING id
insert(sch, conn, index, cells) ==
    Bind(nextRowid(conn, index), LAMBDA id : upsert(sch, conn, index, id, cells))

(***************************************************************************)
(* DB: point access.                                                       *)
(***************************************************************************)
has(sch, conn, key, id) ==
    indexOfKey(sch, key) >= 0 /\ id \in DOMAIN conn.tables[indexOfKey(sch, key)]

\* a count taken from the largest id
countFromLargestId(sch, conn, key) ==
    IF indexOfKey(sch, key) >= 0
    THEN SetMax(DOMAIN conn.tables[indexOfKey(sch, key)]) + 1
    ELSE -1

\* SELECT COUNT(*) AS count FROM c<index>
count(sch, conn, key) ==
    IF indexOfKey(sch, key) >= 0
    THEN Cardinality(DOMAIN conn.tables[indexOfKey(sch, key)])
    ELSE -1

\* what get returns for the parsed row, or throws
getResult(v) ==
    IF v.ok THEN [ok |-> TRUE, err |-> "", value |-> v.value]
    ELSE [ok |-> FALSE, err |-> "internal error parsing value", value |-> unitValue]

\* a get that returns the unit value for an id that is not stored
getMissingAsUnit(sch, conn, key, id) ==
    Bind(indexOfKey(sch, key), LAMBDA index :
        IF index < 0 THEN [ok |-> FALSE, err |-> "key not found", value |-> unitValue]
        ELSE IF id \notin DOMAIN conn.tables[index]
        THEN [ok |-> TRUE, err |-> "", value |-> unitValue]
        ELSE getResult(parseValue(classType(sch, index), <<>>, conn.tables[index][id])))

\* SELECT * FROM c<index> WHERE id = :id; "no element" stands for the
\* message `no element in ${key} with id ${id}`
get(sch, conn, key, id) ==
    Bind(indexOfKey(sch, key), LAMBDA index :
        IF index < 0 THEN [ok |-> FALSE, err |-> "key not found", value |-> unitValue]
        ELSE IF id \notin DOMAIN conn.tables[index]
        THEN [ok |-> FALSE, err |-> "no element", value |-> unitValue]
        ELSE getResult(parseValue(classType(sch, index), <<>>, conn.tables[index][id])))

(***************************************************************************)
(* DB: write operations.  Each returns the connection it leaves behind     *)
(* and, when it throws, the error.                                         *)
(***************************************************************************)
\* the statement of set (id given) or push (id = -1: assigned by the table)
\* run with the params of serializeValue
runWith(sch, conn, index, id, params) ==
    IF ~params.ok
    THEN [ok |-> FALSE, err |-> "internal type error", conn |-> conn, id |-> -1]
    ELSE IF id >= 0 THEN upsert(sch, conn, index, id, params.params)
    ELSE insert(sch, conn, index, params.params)

set(sch, conn, key, id, value) ==
    Bind(indexOfKey(sch, key), LAMBDA index :
        IF index < 0
        THEN [ok |-> FALSE, err |-> "key not found", conn |-> conn, id |-> -1]
        ELSE runWith(sch, conn, index, id, serializeValue(classType(sch, index), value)))

push(sch, conn, key, value) ==
    Bind(indexOfKey(sch, key), LAMBDA index :
        IF index < 0
        THEN [ok |-> FALSE, err |-> "key not found", conn |-> conn, id |-> -1]
        ELSE runWith(sch, conn, index, -1, serializeValue(classType(sch, index), value)))

\* the function that merge runs in a transaction, on elements n.. of the
\* call in the order of Object.keys(elements) and of each elements[key]:
\* it returns, or throws at the first element that fails
RECURSIVE mergeBody(_, _, _, _)
mergeBody(sch, conn, elements, n) ==
    IF n > Len(elements) THEN [ok |-> TRUE, err |-> "", conn |-> conn, id |-> -1]
    ELSE Bind(set(sch, conn, elements[n].key, elements[n].id, elements[n].value),
              LAMBDA r :
                IF r.ok THEN mergeBody(sch, r.conn, elements, n + 1)
                ELSE r)

\* a transaction that keeps what fn wrote before it threw
transactionKeeps(sch, conn, elements) == mergeBody(sch, conn, elements, 1)

\* a rollback that empties every table
rollbackToEmpty(conn, r) ==
    IF r.ok THEN r
    ELSE [r EXCEPT !.conn = [conn EXCEPT !.tables = [i \in DOMAIN @ |-> <<>>]]]

\* what the transaction leaves when fn returned, or threw
rollback(conn, r) == IF r.ok THEN r ELSE [r EXCEPT !.conn = conn]

\* database.transaction(fn)(elements): BEGIN, which throws while an
\* iterator is open; then commit when fn returns, roll back and rethrow
\* when it throws
transaction(sch, conn, elements) ==
    IF conn.iterators > 0 THEN [ok |-> FALSE, err |-> busy, conn |-> conn, id |-> -1]
    ELSE rollback(conn, mergeBody(sch, conn, elements, 1))

\* how merge exits: "PRAGMA foreign_keys = ON" runs only when txn returned
mergeExit(r) == IF r.ok THEN [r EXCEPT !.conn.fk = TRUE] ELSE r

\* a merge that leaves enforcement as it finds it
mergeEnforcing(sch, conn, elements) == transaction(sch, conn, elements)

\* "PRAGMA foreign_keys = OFF", txn(elements), "PRAGMA foreign_keys = ON"
merge(sch, conn, elements) ==
    mergeExit(transaction(sch, [conn EXCEPT !.fk = FALSE], elements))

(***************************************************************************)
(* Bytes: LEB128 varints (the varint package), UTF-8 and 8-bit integers.   *)
(***************************************************************************)
MSB == 128          \* 0x80: the continuation bit of a varint byte
                    \* (byte & REST, with REST = 0x7f, is byte % MSB)

\* varint.encode(n): the bytes of n, least significant group first
RECURSIVE varintEncode(_)
varintEncode(n) ==
    IF n < MSB THEN <<n>>
    ELSE <<(n % MSB) + MSB>> \o varintEncode(n \div MSB)

\* varint.encodingLength(n)
encodingLength(n) == Len(varintEncode(n))

\* varint.decode(buffer, offset): the number that starts at the 0-based
\* offset; ok = FALSE where it throws because the buffer ends inside it
RECURSIVE varintDecodeFrom(_, _, _, _)
varintDecodeFrom(buffer, offset, result, shift) ==
    IF offset >= Len(buffer) THEN [ok |-> FALSE, value |-> 0]
    ELSE IF buffer[offset + 1] >= MSB
    THEN varintDecodeFrom(buffer, offset + 1,
                          result + (buffer[offset + 1] % MSB) * 2^shift, shift + 7)
    ELSE [ok |-> TRUE, value |-> result + buffer[offset + 1] * 2^shift]

varintDecode(buffer, offset) == varintDecodeFrom(buffer, offset, 0, 0)

\* Buffer.from(s, "utf-8") on the strings of the model
utf8(s) ==
    CASE s = "" -> <<>>
      [] s = "a" -> <<97>>
      [] s = "u" -> <<117>>
      [] s = "urn:uuid:0123456789" -> <<117, 114, 110, 58, 117, 117, 105, 100, 58,
                                        48, 49, 50, 51, 52, 53, 54, 55, 56, 57>>
      [] OTHER -> <<63>>

\* buffer.toString("utf-8") on the byte strings of the model
fromUtf8(bytes) ==
    CASE bytes = <<>> -> ""
      [] bytes = <<97>> -> "a"
      [] bytes = <<117>> -> "u"
      [] OTHER -> "?"

\* buffer.readInt8 and buffer.writeInt8: two's complement
readInt8(byte) == IF byte >= 128 THEN byte - 256 ELSE byte
writeInt8(value) == (value + 256) % 256

\* buffer.subarray(from, to), 0-based and clamped to the buffer
subarray(buffer, from, to) ==
    [i \in 1 .. (Max(from, IF to < Len(buffer) THEN to ELSE Len(buffer)) - from) |->
        buffer[from + i]]

\* fixedSizeLiterals[datatype]: the width of the datatypes of the model, 0
\* for a datatype that is not in the table
fixedSizeLiterals(datatype) ==
    CASE datatype \in {xsdBoolean, xsdByte, xsdUnsignedByte} -> 1
      [] datatype \in {xsdShort, xsdUnsignedShort} -> 2
      [] datatype \in {xsdInt, xsdUnsignedInt, xsdFloat} -> 4
      [] datatype \in {xsdLong, xsdUnsignedLong, xsdDouble} -> 8
      [] OTHER -> 0

\* tasl.version, the encoding version that the library writes and accepts
version == 1

\* tasl.optionAtIndex(type, index) does not throw
hasOption(type, index) == index + 1 \in DOMAIN type.options

(***************************************************************************)
(* encoder.ts.  An encoder is a record [chunkSize, buffer, offset,         *)
(* closed]; the buffer keeps the bytes of earlier chunks, as Buffer does.  *)
(* Each write operation is the sequence of steps it performs, and each     *)
(* step yields at most one chunk, as its last effect: the generator can    *)
(* be suspended exactly between two steps.                                 *)
(***************************************************************************)
minChunkSize == 8
defaultChunkSize == 1024

\* the options of new Encoder: <<>>, [chunkSize |-> n] for the integer n, or
\* [chunkSize |-> n, half |-> TRUE] for the number n + 1/2
supplied(options) == "chunkSize" \in DOMAIN options
isSafeInteger(options) == "half" \notin DOMAIN options
falsy(options) == options.chunkSize = 0 /\ isSafeInteger(options)

\* options.chunkSize || Encoder.defaultChunkSize
chunkSizeOr(options) ==
    IF supplied(options) /\ ~falsy(options) THEN options
    ELSE [chunkSize |-> defaultChunkSize]

\* new Encoder(options)
Encoder(options) ==
    Bind(chunkSizeOr(options), LAMBDA size :
        IF ~isSafeInteger(size)
        THEN [err |-> "encoder chunk size must be an integer",
              chunkSize |-> size.chunkSize, buffer |-> <<>>, offset |-> 0,
              closed |-> FALSE]
        ELSE IF size.chunkSize < minChunkSize
        THEN [err |-> "encoder chunk size must be at least 8 bytes",
              chunkSize |-> size.chunkSize, buffer |-> <<>>, offset |-> 0,
              closed |-> FALSE]
        ELSE [err |-> "", chunkSize |-> size.chunkSize,
              buffer |-> [i \in 1 .. size.chunkSize |-> 0], offset |-> 0,
              closed |-> FALSE])

\* flush(): the chunk, a copy of the first `offset` bytes of the buffer (a
\* copy past the end of the buffer leaves the zeros of Buffer.alloc)
flushChunk(e) ==
    [i \in 1 .. e.offset |-> IF i <= e.chunkSize THEN e.buffer[i] ELSE 0]

\* bytes written into the buffer at the 0-based offset
write(buffer, offset, bytes) ==
    [i \in DOMAIN buffer |->
        IF i > offset /\ i <= offset + Len(bytes) THEN bytes[i - offset] ELSE buffer[i]]

\* what a step leaves: the encoder, the chunk it yields if any, the steps
\* that remain of it, and the error if it throws
stepResult(e, yield, rest, err) ==
    [encoder |-> e, yield |-> yield, rest |-> rest, err |-> err]

\* buffer.writeBigInt64BE and writeBigUint64BE of BigInt(value): the two's
\* complement of the number in 8 bytes
writeBigInt64BE(value) ==
    IF value.negative
    THEN bytesOfBits(incrementBits(complement(value.bits \o zeros(64 - Len(value.bits)))), 8)
    ELSE bytesOfBits(value.bits, 8)

\* buffer.writeInt16BE ... writeUint32BE: the two's complement of the
\* integer in n bytes, the most significant first
writeIntBE(value, n) == [k \in 1 .. n |-> (value \div 256^(n - k)) % 256]

\* buffer.writeFloatBE and writeDoubleBE on the integers below 2^24, which
\* both formats hold exactly: the sign, the biased exponent and the bits
\* below the leading one, filled up with zeros
magnitude(value) == IF value < 0 THEN -value ELSE value
bitsOfNumber(n) == trim([i \in 1 .. 24 |-> (n \div 2^(i - 1)) % 2])
ieee(value, exponentBits, fractionBits) ==
    IF value = 0 THEN zeros(1 + exponentBits + fractionBits)
    ELSE Bind(bitsOfNumber(magnitude(value)), LAMBDA bits :
            zeros(fractionBits - (Len(bits) - 1))
            \o SubSeq(bits, 1, Len(bits) - 1)
            \o [i \in 1 .. exponentBits |->
                    ((Len(bits) - 1 + 2^(exponentBits - 1) - 1) \div 2^(i - 1)) % 2]
            \o <<IF value < 0 THEN 1 ELSE 0>>)
writeFloatBE(value) == bytesOfBits(ieee(value, 8, 23), 4)
writeDoubleBE(value) == bytesOfBits(ieee(value, 11, 52), 8)

\* the bytes writeUInt8 ... writeInt8 put at the offset
fixedBytes(datatype, value) ==
    CASE datatype = xsdByte -> <<writeInt8(value)>>
      [] datatype \in {xsdLong, xsdUnsignedLong} -> writeBigInt64BE(value)
      [] datatype \in {xsdShort, xsdUnsignedShort} -> writeIntBE(value, 2)
      [] datatype \in {xsdInt, xsdUnsignedInt} -> writeIntBE(value, 4)
      [] datatype = xsdFloat -> writeFloatBE(value)
      [] datatype = xsdDouble -> writeDoubleBE(value)
      [] OTHER -> <<value>>

\* the values writeUInt8 and writeInt8 take
fixedInRange(datatype, value) ==
    CASE datatype = xsdByte -> value >= -128 /\ value <= 127
      [] datatype = xsdLong -> Len(value.bits) < 64
      [] datatype = xsdUnsignedLong -> ~value.negative /\ Len(value.bits) <= 64
      [] datatype = xsdShort -> value >= -(2^15) /\ value < 2^15
      [] datatype = xsdUnsignedShort -> value >= 0 /\ value < 2^16
      [] datatype = xsdUnsignedInt -> value >= 0
      [] datatype \in {xsdInt, xsdFloat, xsdDouble} -> TRUE
      [] OTHER -> value >= 0 /\ value <= 255

\* encodeFizedSizeLiteral after allocate: the write, then offset += size;
\* the xsd:byte branch has already advanced the offset by one
writeFixed(e, datatype, value) ==
    [e EXCEPT !.buffer = write(@, e.offset, fixedBytes(datatype, value)),
              !.offset = (IF datatype = xsdByte THEN @ + 1 ELSE @)
                         + fixedSizeLiterals(datatype)]

\* encodeBuffer yields the buffer and goes on from sourceOffset
yieldBuffer(e, value, sourceOffset) ==
    stepResult([e EXCEPT !.offset = 0], <<flushChunk(e)>>,
               << [op |-> "buffer", value |-> value, sourceOffset |-> sourceOffset] >>,
               "")

\* one round of encodeBuffer on the bytes from sourceOffset: fill the
\* buffer if it has room and yield it, or copy what is left
writeBuffer(e, value, sourceOffset) ==
    IF Len(value) - sourceOffset > e.chunkSize - e.offset
    THEN IF e.chunkSize - e.offset > 0
         THEN yieldBuffer(
                [e EXCEPT !.buffer = write(@, e.offset,
                                subarray(value, sourceOffset,
                                         sourceOffset + e.chunkSize - e.offset)),
                          !.offset = e.chunkSize],
                value, sourceOffset + e.chunkSize - e.offset)
         ELSE yieldBuffer(e, value, sourceOffset)
    ELSE stepResult(
            [e EXCEPT !.buffer = write(@, e.offset,
                                       subarray(value, sourceOffset, Len(value))),
                      !.offset = @ + Len(value) - sourceOffset],
            <<>>, <<>>, "")

\* one step of a write operation
runStep(e, step) ==
    CASE step.op = "open" ->
            stepResult(e, <<>>, <<>>, IF e.closed THEN "stream closed" ELSE "")
      [] step.op = "allocate" ->
            IF step.size > e.chunkSize - e.offset
            THEN stepResult([e EXCEPT !.offset = 0], <<flushChunk(e)>>, <<>>, "")
            ELSE stepResult(e, <<>>, <<>>, "")
      [] step.op = "varint" ->
            stepResult([e EXCEPT !.buffer = write(@, e.offset, varintEncode(step.value)),
                                 !.offset = @ + encodingLength(step.value)],
                       <<>>, <<>>, "")
      [] step.op = "fixed" ->
            IF fixedInRange(step.datatype, step.value)
            THEN stepResult(writeFixed(e, step.datatype, step.value), <<>>, <<>>, "")
            ELSE stepResult(e, <<>>, <<>>, "value is out of range")
      [] step.op = "buffer" -> writeBuffer(e, step.value, step.sourceOffset)
      [] step.op = "close" ->
            IF e.closed THEN stepResult(e, <<>>, <<>>, "stream closed")
            ELSE IF e.offset > 0
            THEN stepResult([e EXCEPT !.offset = 0], <<flushChunk(e)>>,
                            << [op |-> "closed"] >>, "")
            ELSE stepResult([e EXCEPT !.closed = TRUE], <<>>, <<>>, "")
      [] step.op = "closed" ->
            stepResult([e EXCEPT !.closed = TRUE], <<>>, <<>>, "")
      [] step.op = "throw" -> stepResult(e, <<>>, <<>>, step.err)

\* the steps of the write operations
allocate(size) == << [op |-> "allocate", size |-> size] >>

encodeUnsignedVarint(value) ==
    << [op |-> "open"] >> \o allocate(encodingLength(value))
    \o << [op |-> "varint", value |-> value] >>

encodeBuffer(value) == << [op |-> "buffer", value |-> value, sourceOffset |-> 0] >>

encodeString(value) ==
    << [op |-> "open"] >> \o encodeUnsignedVarint(Len(utf8(value)))
    \o encodeBuffer(utf8(value))

encodeFizedSizeLiteral(datatype, value) ==
    << [op |-> "open"] >> \o allocate(fixedSizeLiterals(datatype))
    \o << [op |-> "fixed", datatype |-> datatype, value |-> value] >>

unexpectedType == << [op |-> "throw", err |-> "internal error: unexpected type"] >>

RECURSIVE encodeValue(_, _, _)
encodeValue(type, path, row) ==
    CASE type.kind = "uri" ->
            IF isString(cellOf(row, getPropertyName(path)))
            THEN encodeString(cellOf(row, getPropertyName(path)).text)
            ELSE unexpectedType
      [] type.kind = "literal" ->
            IF fixedSizeLiterals(type.datatype) > 0
            THEN IF isNumber(cellOf(row, getPropertyName(path)))
                 THEN encodeFizedSizeLiteral(type.datatype,
                                             cellOf(row, getPropertyName(path)).int)
                 ELSE unexpectedType
            ELSE IF isString(cellOf(row, getPropertyName(path)))
                 THEN encodeString(cellOf(row, getPropertyName(path)).text)
                 ELSE unexpectedType
      [] type.kind = "product" ->
            Flatten([i \in DOMAIN type.components |->
                encodeValue(type.components[i].type, Append(path, i - 1), row)])
      [] type.kind = "coproduct" ->
            IF ~isNumber(cellOf(row, getPropertyName(path))) THEN unexpectedType
            ELSE Bind(cellOf(row, getPropertyName(path)).int, LAMBDA index :
                    IF ~hasOption(type, index)
                    THEN << [op |-> "throw", err |-> "invalid option index"] >>
                    ELSE encodeUnsignedVarint(index)
                         \o encodeValue(type.options[index + 1].type,
                                        Append(path, index), row))
      [] type.kind = "reference" ->
            IF isNumber(cellOf(row, getPropertyName(path)))
            THEN encodeUnsignedVarint(cellOf(row, getPropertyName(path)).int)
            ELSE unexpectedType

close == << [op |-> "close"] >>

(***************************************************************************)
(* DB.export: an async generator.  Its frame holds the position in the     *)
(* body (pc), the class index, the cursor of the open statement iterator,  *)
(* the steps of the write operation in progress, the encoder and the       *)
(* chunks yielded so far.  `start` is the connection when export was       *)
(* called, `counts` the count written for each class and `rows` the        *)
(* number of rows written for each class.                                  *)
(***************************************************************************)
\* no export was called
NoGenerator ==
    [pc |-> "none", options |-> <<>>, index |-> 0, cursor |-> -1, delta |-> 0,
     queue |-> <<>>, encoder |-> Encoder([chunkSize |-> minChunkSize]),
     iterating |-> FALSE, yielded |-> FALSE, out |-> <<>>, err |-> "",
     start |-> <<>>, counts |-> <<>>, rows |-> <<>>]

\* db.export(options): the generator object, before its body runs
exportCall(conn, options) ==
    [NoGenerator EXCEPT !.pc = "start", !.options = options, !.start = conn.tables]

\* the generator throws: the iterator of the statement is released
fail(g, err) == [g EXCEPT !.pc = "failed", !.err = err, !.iterating = FALSE]

\* the ids that the open iterator of class `index` has not reached
unread(conn, g) == {id \in DOMAIN conn.tables[g.index] : id > g.cursor}

\* the least element of a non-empty set of ids
SetMin(S) == CHOOSE x \in S : \A y \in S : x <= y

\* the next row of the statement: its steps are queued
exportRow(sch, conn, g, id) ==
    [g EXCEPT !.queue = encodeUnsignedVarint(id - g.delta)
                        \o encodeValue(classType(sch, g.index), <<>>,
                                       conn.tables[g.index][id]),
              !.delta = id + 1,
              !.cursor = id,
              !.rows = <<Head(@) + 1>> \o Tail(@)]

\* the head of the queue runs on the encoder
exportStep(g, s) ==
    IF s.err # "" THEN fail(g, s.err)
    ELSE [g EXCEPT !.encoder = s.encoder,
                   !.queue = s.rest \o Tail(@),
                   !.out = @ \o s.yield,
                   !.yielded = s.yield # <<>>]

\* one step of the body of export
advance(sch, conn, g) ==
    IF g.queue # <<>> THEN exportStep(g, runStep(g.encoder, Head(g.queue)))
    ELSE CASE g.pc = "start" ->
                IF Encoder(g.options).err # "" THEN fail(g, Encoder(g.options).err)
                ELSE [g EXCEPT !.encoder = Encoder(g.options),
                               !.queue = encodeUnsignedVarint(version),
                               !.pc = "class", !.index = 0]
           [] g.pc = "class" ->
                IF g.index = Len(sch)
                THEN [g EXCEPT !.queue = close, !.pc = "close"]
                ELSE [g EXCEPT
                        !.queue = encodeUnsignedVarint(
                                    Cardinality(DOMAIN conn.tables[g.index])),
                        !.counts = <<Cardinality(DOMAIN conn.tables[g.index])>> \o @,
                        !.rows = <<0>> \o @,
                        !.pc = "iterate"]
           [] g.pc = "iterate" ->
                [g EXCEPT !.iterating = TRUE, !.cursor = -1, !.delta = 0, !.pc = "row"]
           [] g.pc = "row" ->
                IF unread(conn, g) = {}
                THEN [g EXCEPT !.iterating = FALSE, !.index = @ + 1, !.pc = "class"]
                ELSE exportRow(sch, conn, g, SetMin(unread(conn, g)))
           [] g.pc = "close" -> [g EXCEPT !.pc = "done"]
           [] OTHER -> g

\* the body runs until it yields a chunk, returns or throws
RECURSIVE run(_, _, _)
run(sch, conn, g) ==
    IF g.yielded \/ g.pc \in {"done", "failed", "none"} THEN g
    ELSE run(sch, conn, advance(sch, conn, g))

\* generator.next()
resume(sch, conn, g) == run(sch, conn, advance(sch, conn, [g EXCEPT !.yielded = FALSE]))

\* for await (const chunk of db.export(options)): the consumer takes
\* every chunk, and nothing else touches the handle meanwhile
RECURSIVE drain(_, _, _)
drain(sch, conn, g) ==
    IF g.pc \in {"done", "failed", "none"} THEN g
    ELSE drain(sch, conn, resume(sch, conn, g))

export(sch, conn, options) == drain(sch, conn, exportCall(conn, options))

\* Buffer.concat(chunks)
concat(chunks) == Flatten(chunks)

(***************************************************************************)
(* DB: ordered scans.  A generator that is consumed to its end is the      *)
(* record [ok, err, out]: the sequence it yields, and the error when it    *)
(* throws.                                                                 *)
(***************************************************************************)
\* ORDER BY id DESC: the ids from the largest down
RECURSIVE orderByIdDesc(_)
orderByIdDesc(ids) ==
    IF ids = {} THEN <<>>
    ELSE <<SetMax(ids)>> \o orderByIdDesc(ids \ {SetMax(ids)})

\* SELECT id FROM c<index> ORDER BY id ASC, over the ids of the table
RECURSIVE orderById(_)
orderById(ids) ==
    IF ids = {} THEN <<>>
    ELSE <<SetMin(ids)>> \o orderById(ids \ {SetMin(ids)})

\* the rows of the statement of keys, values and entries, as their ids
scan(conn, index) == orderById(DOMAIN conn.tables[index])

\* what a scan of an unknown key does: schema.indexOfKey throws
noClass == [ok |-> FALSE, err |-> "key not found", out |-> <<>>]

\* db.keys(key)
keys(sch, conn, key) ==
    IF indexOfKey(sch, key) < 0 THEN noClass
    ELSE [ok |-> TRUE, err |-> "", out |-> scan(conn, indexOfKey(sch, key))]

\* the loop of values and entries over the rows n.. of the scan: each row
\* is parsed and yielded, and the generator throws where parseValue does
RECURSIVE parseRows(_, _, _, _, _)
\* the row n was parsed
parsedRow(type, table, ids, n, out, v) ==
    IF ~v.ok THEN [ok |-> FALSE, err |-> "internal error parsing value", out |-> out]
    ELSE parseRows(type, table, ids, n + 1, Append(out, [id |-> ids[n], value |-> v.value]))

parseRows(type, table, ids, n, out) ==
    IF n > Len(ids) THEN [ok |-> TRUE, err |-> "", out |-> out]
    ELSE parsedRow(type, table, ids, n, out, parseValue(type, <<>>, table[ids[n]]))

\* db.entries(key): the pairs [id, value]
entries(sch, conn, key) ==
    IF indexOfKey(sch, key) < 0 THEN noClass
    ELSE parseRows(classType(sch, indexOfKey(sch, key)),
                   conn.tables[indexOfKey(sch, key)],
                   scan(conn, indexOfKey(sch, key)), 1, <<>>)

\* only the value of each row is yielded
valuesOnly(r) == [r EXCEPT !.out = [n \in DOMAIN r.out |-> r.out[n].value]]

\* db.values(key)
values(sch, conn, key) == valuesOnly(entries(sch, conn, key))

(***************************************************************************)
(* decoder.ts.  A decoder is a record of the fields of the class, with     *)
(* `source` for the chunks its iterator has not yielded yet; lastChunk is  *)
(* the last of `chunks`, and null when `chunks` is empty.  A method        *)
(* returns the decoder it leaves, with what it returns in `number` or      *)
(* `buffer` and what it throws in `err`; a method called on a decoder      *)
(* that has thrown does nothing, which is how the exception propagates.    *)
(***************************************************************************)
\* new Decoder(stream); the offsets are NaN until the first chunk, shown
\* here as -1
Decoder(stream) ==
    [chunks |-> <<>>, startOffset |-> -1, endOffset |-> -1, byteLength |-> 0,
     source |-> stream, number |-> 0, buffer |-> <<>>, err |-> ""]

lastChunk(d) == d.chunks[Len(d.chunks)]

\* a flush that goes back to the start of the range
flushRewinding(d) ==
    IF d.err # "" \/ d.chunks = <<>> THEN d
    ELSE [d EXCEPT !.chunks = <<Head(d.chunks)>>, !.endOffset = d.startOffset,
                   !.byteLength = 0, !.source = Tail(d.chunks) \o @]

\* flush()
flush(d) ==
    IF d.err # "" \/ d.chunks = <<>> THEN d
    ELSE IF d.endOffset < Len(lastChunk(d))
    THEN [d EXCEPT !.chunks = <<lastChunk(d)>>, !.startOffset = d.endOffset,
                   !.byteLength = 0]
    ELSE [d EXCEPT !.chunks = <<>>, !.startOffset = 0, !.endOffset = 0,
                   !.byteLength = 0]

\* the bytes of the chunks from the start offset of the first one
RECURSIVE copyChunks(_, _)
copyChunks(chunks, sourceOffset) ==
    IF chunks = <<>> THEN <<>>
    ELSE subarray(Head(chunks), sourceOffset, Len(Head(chunks)))
         \o copyChunks(Tail(chunks), 0)

\* a collect that copies the first chunk from its first byte
collectFromStart(d) ==
    IF d.err # "" THEN d
    ELSE IF d.chunks = <<>> THEN [d EXCEPT !.buffer = <<>>]
    ELSE [d EXCEPT !.buffer = subarray(copyChunks(d.chunks, 0), 0, d.byteLength)]

\* collect(): a buffer of byteLength bytes filled from the chunks
collect(d) ==
    IF d.err # "" THEN d
    ELSE IF d.chunks = <<>> THEN [d EXCEPT !.buffer = <<>>]
    ELSE [d EXCEPT !.buffer = subarray(copyChunks(d.chunks, d.startOffset),
                                       0, d.byteLength)]

\* what the source yields in place of a chunk when it yields a value that
\* is not a Buffer
NotBuffer == <<-1>>

\* a next() that passes over the values it cannot take
RECURSIVE nextLenient(_)
nextLenient(d) ==
    IF d.err # "" THEN d
    ELSE IF d.source = <<>>
    THEN [d EXCEPT !.err = "could not decode stream: iterable ended early"]
    ELSE IF Head(d.source) \in {NotBuffer, <<>>}
    THEN nextLenient([d EXCEPT !.source = Tail(@)])
    ELSE [d EXCEPT !.source = Tail(@), !.chunks = Append(@, Head(d.source))]

\* next(), with the push onto `chunks` that each of its callers does
next(d) ==
    IF d.err # "" THEN d
    ELSE IF d.source = <<>>
    THEN [d EXCEPT !.err = "could not decode stream: iterable ended early"]
    ELSE IF Head(d.source) = NotBuffer
    THEN [d EXCEPT !.source = Tail(@),
                   !.err = "could not decode stream: value is not a Buffer"]
    ELSE IF Head(d.source) = <<>>
    THEN [d EXCEPT !.source = Tail(@),
                   !.err = "could not decode stream: buffer chunks cannot be length zero"]
    ELSE [d EXCEPT !.source = Tail(@), !.chunks = Append(@, Head(d.source))]

\* the offsets that getLastChunk sets for the chunk it pulled
firstChunk(d) == IF d.err # "" THEN d ELSE [d EXCEPT !.startOffset = 0, !.endOffset = 0]

getLastChunk(d) == IF d.err # "" \/ d.chunks # <<>> THEN d ELSE firstChunk(next(d))

\* a pull that leaves the bytes of the chunk before uncounted
skipChunkUncounted(d, remainingCapacity) ==
    IF d.err # "" THEN d
    ELSE [d EXCEPT !.endOffset = 0]

\* what skip does with the chunk it pulled
skipChunk(d, remainingCapacity) ==
    IF d.err # "" THEN d
    ELSE [d EXCEPT !.endOffset = 0, !.byteLength = @ + remainingCapacity]

\* the loop of skip
RECURSIVE skipTo(_, _)
\* a loop that pulls the next chunk when the target is the end of the chunk
skipToEagerly(d, targetByteLength) ==
    IF d.err # "" \/ d.byteLength >= targetByteLength THEN d
    ELSE IF d.byteLength + (Len(lastChunk(d)) - d.endOffset) <= targetByteLength
    THEN skipTo(skipChunk(next(d), Len(lastChunk(d)) - d.endOffset), targetByteLength)
    ELSE [d EXCEPT !.endOffset = @ + targetByteLength - d.byteLength,
                   !.byteLength = targetByteLength]

skipTo(d, targetByteLength) ==
    IF d.err # "" \/ d.byteLength >= targetByteLength THEN d
    ELSE IF d.byteLength + (Len(lastChunk(d)) - d.endOffset) < targetByteLength
    THEN skipTo(skipChunk(next(d), Len(lastChunk(d)) - d.endOffset), targetByteLength)
    ELSE [d EXCEPT !.endOffset = @ + targetByteLength - d.byteLength,
                   !.byteLength = targetByteLength]

\* skip(n)
skip(d, n) == skipTo(getLastChunk(d), d.byteLength + n)

\* what readUnsignedVarint does with the chunk it pulled
varintChunk(d) == IF d.err # "" THEN d ELSE [d EXCEPT !.endOffset = 0]

\* the byte at endOffset is read
readByte(d) ==
    IF d.err # "" THEN d
    ELSE [d EXCEPT !.byteLength = @ + 1, !.endOffset = @ + 1,
                   !.number = lastChunk(d)[d.endOffset + 1]]

\* the loop of readUnsignedVarint after the byte of this round was read
\* into `number`
\* an addition that puts every group at shift 0
addGroupUnshifted(result, byte, shift) ==
    toDouble(trim(result \o [i \in 1 .. 7 |-> ((byte % MSB) \div 2^(i - 1)) % 2]))

\* result += (byte & REST) << shift, or (byte & REST) * Math.pow(2, shift)
\* from shift 28 on: the sum of two doubles, held as its bits; below shift
\* 28 the 32-bit shift does not overflow
addGroup(result, byte, shift) ==
    toDouble(trim(result \o zeros(shift - Len(result))
                  \o [i \in 1 .. 7 |-> ((byte % MSB) \div 2^(i - 1)) % 2]))

RECURSIVE readVarintFrom(_, _, _)
varintRound(d, result, shift) ==
    IF d.err # "" THEN d
    ELSE IF d.number >= MSB
    THEN readVarintFrom(d, addGroup(result, d.number, shift), shift + 7)
    ELSE [d EXCEPT !.number = numberOfBits(addGroup(result, d.number, shift))]

\* the loop of readUnsignedVarint
readVarintFrom(d, result, shift) ==
    IF d.err # "" THEN d
    ELSE IF shift > 49 THEN [d EXCEPT !.err = "could not decode unsigned varint"]
    ELSE varintRound(
            readByte(IF d.endOffset = Len(lastChunk(d)) THEN varintChunk(next(d)) ELSE d),
            result, shift)

readUnsignedVarint(d) == readVarintFrom(getLastChunk(d), <<>>, 0)

\* the scan of a value that starts with a varint, after the varint
RECURSIVE readValue(_, _)
RECURSIVE readComponents(_, _, _)
readOption(d, type) ==
    IF d.err # "" THEN d
    ELSE IF ~hasOption(type, d.number) THEN [d EXCEPT !.err = "invalid option index"]
    ELSE readValue(d, type.options[d.number + 1].type)

\* the length read, the bytes are skipped
skipNumber(d) == IF d.err # "" THEN d ELSE skip(d, d.number)

readValue(d, type) ==
    IF d.err # "" THEN d
    ELSE CASE type.kind = "uri" -> skipNumber(readUnsignedVarint(d))
           [] type.kind = "literal" ->
                IF fixedSizeLiterals(type.datatype) > 0
                THEN skip(d, fixedSizeLiterals(type.datatype))
                ELSE skipNumber(readUnsignedVarint(d))
           [] type.kind = "product" -> readComponents(d, type, 1)
           [] type.kind = "coproduct" -> readOption(readUnsignedVarint(d), type)
           [] type.kind = "reference" -> readUnsignedVarint(d)

readComponents(d, type, i) ==
    IF i > Len(type.components) THEN d
    ELSE readComponents(readValue(d, type.components[i].type), type, i + 1)

\* a decodeUnsignedVarint that keeps the scanned range
decodeUnsignedVarintUnflushed(d) == readUnsignedVarint(d)

decodeUnsignedVarint(d) == flush(readUnsignedVarint(d))

decodeElement(d, type) == flush(collect(readValue(d, type)))

\* parseRow works on a state [buffer, offset] and the row it fills; here
\* both are in one record, with the error if it throws
ParseState(buffer, row) ==
    [buffer |-> buffer, offset |-> 0, row |-> row, number |-> 0, err |-> ""]

\* varint.decode at the offset, then offset += varint.encodingLength(n);
\* the number is left in `number`
parseVarint(p, n) ==
    IF p.err # "" THEN p
    ELSE IF ~n.ok THEN [p EXCEPT !.err = "could not decode varint"]
    ELSE [p EXCEPT !.offset = @ + encodingLength(n.value), !.number = n.value]

\* the cell is assigned to row[name]
assign(p, name, cell) ==
    [p EXCEPT !.row = [n \in DOMAIN p.row \cup {name} |->
                          IF n = name THEN cell ELSE p.row[n]]]

\* parseString after its varint: the bytes of the string
parseStringBytes(p, name) ==
    IF p.err # "" THEN p
    ELSE assign([p EXCEPT !.offset = @ + p.number], name,
                TextCell(fromUtf8(subarray(p.buffer, p.offset, p.offset + p.number))))

parseString(p, name) ==
    parseStringBytes(parseVarint(p, varintDecode(p.buffer, p.offset)), name)

\* buffer.readInt16BE ... readUint32BE, and readFloatBE and readDoubleBE on
\* the bytes of an integer below 2^24
readUIntBE(bytes) ==
    IF Len(bytes) = 2 THEN bytes[1] * 256 + bytes[2]
    ELSE ((bytes[1] * 256 + bytes[2]) * 256 + bytes[3]) * 256 + bytes[4]
readIntBE(bytes) ==
    IF bytes[1] < 128 THEN readUIntBE(bytes)
    ELSE readUIntBE([bytes EXCEPT ![1] = 0]) + (bytes[1] - 256) * 256^(Len(bytes) - 1)
readIEEE(bits, exponentBits, fractionBits) ==
    IF \A i \in 1 .. exponentBits + fractionBits : bits[i] = 0 THEN 0
    ELSE Bind(natOfBits(SubSeq(bits, fractionBits + 1, fractionBits + exponentBits))
                - (2^(exponentBits - 1) - 1),
              LAMBDA exponent :
                 (IF bits[Len(bits)] = 1 THEN -1 ELSE 1)
                 * (2^exponent
                    + natOfBits(SubSeq(bits, fractionBits - exponent + 1, fractionBits))))
readBE(datatype, bytes) ==
    CASE datatype \in {xsdShort, xsdInt} -> readIntBE(bytes)
      [] datatype \in {xsdUnsignedShort, xsdUnsignedInt} -> readUIntBE(bytes)
      [] datatype = xsdFloat -> readIEEE(bitsOfBytes(bytes), 8, 23)
      [] datatype = xsdDouble -> readIEEE(bitsOfBytes(bytes), 11, 52)

\* the xsd:long branch: readBigInt64BE, the test against MAX_SAFE_INTEGER
\* and Number(value)
parseLong(p, name) ==
    Bind(readBigInt64BE(subarray(p.buffer, p.offset, p.offset + 8)), LAMBDA value :
        IF greaterThan(value, MAX_SAFE_INTEGER)
        THEN [p EXCEPT !.err = "node-sqlite-tasl does not support i64 values greater than Number.MAX_SAFE_INTEGER"]
        ELSE assign([p EXCEPT !.offset = @ + 8], name, IntCell(Number(value))))

\* the xsd:unsignedLong branch: readBigUInt64BE and the two tests
parseUnsignedLong(p, name) ==
    Bind(readBigUInt64BE(subarray(p.buffer, p.offset, p.offset + 8)), LAMBDA value :
        IF greaterThan(value, MAX_SAFE_INTEGER)
        THEN [p EXCEPT !.err = "node-sqlite-tasl does not support u64 values greater than Number.MAX_SAFE_INTEGER"]
        ELSE IF lessThan(value, MIN_SAFE_INTEGER)
        THEN [p EXCEPT !.err = "node-sqlite-tasl does not support u64 values less than Number.MIN_SAFE_INTEGER"]
        ELSE assign([p EXCEPT !.offset = @ + 8], name, IntCell(Number(value))))

\* the literals of fixed size: the read at the offset, which throws when the
\* buffer ends before the last byte of the literal
parseFixed(p, datatype, name) ==
    IF p.offset + fixedSizeLiterals(datatype) > Len(p.buffer)
    THEN [p EXCEPT !.err = "offset is out of range"]
    ELSE CASE datatype = xsdLong -> parseLong(p, name)
           [] datatype = xsdUnsignedLong -> parseUnsignedLong(p, name)
           [] fixedSizeLiterals(datatype) > 1 ->
                assign([p EXCEPT !.offset = @ + fixedSizeLiterals(datatype)], name,
                       IntCell(readBE(datatype,
                                      subarray(p.buffer, p.offset,
                                               p.offset + fixedSizeLiterals(datatype)))))
           [] OTHER ->
                assign([p EXCEPT !.offset = @ + 1], name,
                       IntCell(IF datatype = xsdByte
                               THEN readInt8(p.buffer[p.offset + 1])
                               ELSE p.buffer[p.offset + 1]))

RECURSIVE parseRow(_, _, _)
RECURSIVE parseComponents(_, _, _, _)
\* the index of a coproduct was parsed: it is assigned, and the option parsed
parseOption(p, type, path) ==
    IF p.err # "" THEN p
    ELSE IF ~hasOption(type, p.number)
    THEN [assign(p, getPropertyName(path), IntCell(p.number))
            EXCEPT !.err = "invalid option index"]
    ELSE parseRow(assign(p, getPropertyName(path), IntCell(p.number)),
                  type.options[p.number + 1].type, Append(path, p.number))

\* the id of a reference was parsed: it is assigned
parseReference(p, path) ==
    IF p.err # "" THEN p ELSE assign(p, getPropertyName(path), IntCell(p.number))

parseRow(p, type, path) ==
    IF p.err # "" THEN p
    ELSE CASE type.kind = "uri" -> parseString(p, getPropertyName(path))
           [] type.kind = "literal" ->
                IF fixedSizeLiterals(type.datatype) > 0
                THEN parseFixed(p, type.datatype, getPropertyName(path))
                ELSE parseString(p, getPropertyName(path))
           [] type.kind = "product" -> parseComponents(p, type, path, 1)
           [] type.kind = "coproduct" ->
                parseOption(parseVarint(p, varintDecode(p.buffer, p.offset)), type, path)
           [] type.kind = "reference" ->
                parseReference(parseVarint(p, varintDecode(p.buffer, p.offset)), path)

parseComponents(p, type, path, i) ==
    IF i > Len(type.components) THEN p
    ELSE parseComponents(parseRow(p, type.components[i].type, Append(path, i - 1)),
                         type, path, i + 1)

\* decodeRow(type): the row of the next element
decodeRow(d, type) ==
    Bind(decodeElement(d, type), LAMBDA e :
        IF e.err # "" THEN [decoder |-> e, row |-> <<>>, err |-> e.err]
        ELSE Bind(parseRow(ParseState(e.buffer, <<>>), type, <<>>), LAMBDA p :
                [decoder |-> e, row |-> p.row, err |-> p.err]))

(***************************************************************************)
(* The schemas and the inputs of the model.                                *)
(***************************************************************************)
\* the schema of the README: two classes that reference each other
LibrarySchema ==
    << [key |-> "ex:Person",
        type |-> product(<< [key |-> "ex:favoriteBook", type |-> reference("ex:Book")] >>)],
       [key |-> "ex:Book",
        type |-> coproduct(<< [key |-> "ex:author", type |-> reference("ex:Person")],
                              [key |-> "ex:anonymous", type |-> unit] >>)] >>

\* one class of literals
FlagSchema ==
    << [key |-> "ex:Flag",
        type |-> coproduct(<< [key |-> "ex:set", type |-> literal(xsdBoolean)],
                              [key |-> "ex:name", type |-> literal(xsdString)] >>)] >>

Schemas == {LibrarySchema, FlagSchema}

UnknownKey == "ex:Nope"

classKeys(sch) == {sch[i].key : i \in DOMAIN sch}

\* the lexical forms of a datatype that the model draws from: the
\* canonical ones, and with `lenient` also the other forms the shredder takes
lexicalForms(datatype, lenient) ==
    CASE datatype = xsdBoolean ->
            {"true", "false"} \cup (IF lenient THEN {"1", "0"} ELSE {})
      [] datatype = xsdUnsignedByte -> {"7"}
      [] datatype = xsdByte -> {"-1"}
      [] OTHER -> {"a"}

\* the values of the right kind at every node; without `lenient` they
\* conform to the type: every literal is in canonical lexical form
RECURSIVE valuesOf(_, _)
RECURSIVE productValues(_, _)
valuesOf(type, lenient) ==
    CASE type.kind = "uri" -> {uriValue(s) : s \in {"u"}}
      [] type.kind = "literal" ->
            {literalValue(s) : s \in lexicalForms(type.datatype, lenient)}
      [] type.kind = "product" ->
            {productValue(f) : f \in productValues(type.components, lenient)}
      [] type.kind = "coproduct" ->
            UNION {{coproductValue(type.options[i].key, v) :
                        v \in valuesOf(type.options[i].type, lenient)} :
                   i \in DOMAIN type.options}
      [] type.kind = "reference" -> {referenceValue(i) : i \in Ids}

productValues(components, lenient) ==
    IF components = <<>> THEN {<<>>}
    ELSE {(Head(components).key :> v) @@ f :
            v \in valuesOf(Head(components).type, lenient),
            f \in productValues(Tail(components), lenient)}

\* a value of the wrong kind for the type
mismatchOf(type) == IF type.kind = "reference" THEN unitValue ELSE referenceValue(0)

\* the values that conform to the type of a class
conforming(sch, key) == valuesOf(classType(sch, indexOfKey(sch, key)), FALSE)

\* the values a caller passes for a key
argumentsOf(sch, key) ==
    IF key \in classKeys(sch)
    THEN valuesOf(classType(sch, indexOfKey(sch, key)), TRUE)
         \cup {mismatchOf(classType(sch, indexOfKey(sch, key)))}
    ELSE {unitValue}

\* the elements a merge call may carry: every conforming element, one
\* element of the wrong kind per class and one under an unknown key
elementsOf(sch) ==
    UNION {{[key |-> key, id |-> id, value |-> v] :
                id \in Ids, v \in conforming(sch, key)}
           \cup {[key |-> key, id |-> 0,
                  value |-> mismatchOf(classType(sch, indexOfKey(sch, key)))]} :
           key \in classKeys(sch)}
    \cup {[key |-> UnknownKey, id |-> 0, value |-> unitValue]}

\* Object.keys(elements) x elements[key]: an object holds each key once, so
\* the elements of one key are adjacent
grouped(elements) ==
    \A i, j \in DOMAIN elements :
        (i < j /\ elements[i].key = elements[j].key) =>
            \A m \in i .. j : elements[m].key = elements[i].key

RECURSIVE seqsUpTo(_, _)
seqsUpTo(S, n) ==
    IF n = 0 THEN {<<>>}
    ELSE seqsUpTo(S, n - 1) \cup {Append(q, x) : q \in seqsUpTo(S, n - 1), x \in S}

mergeArguments(sch) ==
    {es \in seqsUpTo(elementsOf(sch), MaxMerge) : es # <<>> /\ grouped(es)}

\* the references [key, id] that a value of the type holds
RECURSIVE referencesOf(_, _)
referencesOf(type, value) ==
    CASE type.kind = "reference" -> {[key |-> type.key, id |-> value.id]}
      [] type.kind = "product" ->
            UNION {referencesOf(type.components[i].type,
                                value.components[type.components[i].key]) :
                   i \in DOMAIN type.components}
      [] type.kind = "coproduct" ->
            UNION {referencesOf(type.options[i].type, value.value) :
                   i \in {j \in DOMAIN type.options : type.options[j].key = value.key}}
      [] OTHER -> {}

(***************************************************************************)
(* DB.create and DB.import.  An import in progress is a record [decoder,   *)
(* conn, err].                                                             *)
(***************************************************************************)
\* the private static schemaId
schemaId == 0

\* tasl.encodeSchema and tasl.decodeSchema: the blob of a schema, and the
\* schema of a blob; the bytes are the tasl library's
encodeSchema(sch) == [blob |-> sch]
decodeSchema(value) == value.blob

\* a setSchema that writes the row under another id
setSchemaElsewhere(sch) == (schemaId + 1) :> encodeSchema(sch)

\* setSchema: "INSERT INTO schemas VALUES (?, ?)" with schemaId and the
\* blob, on the empty table; the class tables are those of create
setSchema(sch) == schemaId :> encodeSchema(sch)

\* getSchema: "SELECT value FROM schemas WHERE id = ?" with schemaId; the
\* row is undefined when there is none, and reading its value throws
getSchema(rows) ==
    IF schemaId \in DOMAIN rows
    THEN [ok |-> TRUE, schema |-> decodeSchema(rows[schemaId])]
    ELSE [ok |-> FALSE, schema |-> <<>>]

\* DB.create(null, S): the tables of setSchema, and the constructor's
\* "PRAGMA foreign_keys = ON"
create(sch) ==
    [tables |-> [index \in 0 .. Len(sch) - 1 |-> <<>>], fk |-> TRUE, iterators |-> 0,
     schemas |-> setSchema(sch)]

\* db.#upsert[index].run(row) returned or threw
stored(m, r) == IF r.ok THEN [m EXCEPT !.conn = r.conn] ELSE [m EXCEPT !.err = r.err]

\* the row that forRows yields is upserted
importRow(sch, m, index, id, p) ==
    IF p.err # "" THEN [m EXCEPT !.err = p.err]
    ELSE stored(m, upsert(sch, m.conn, index, id, p.row))

\* forRows: the element that forElements yields is parsed into a row
importElement(sch, m, index, id, e) ==
    IF e.err # "" THEN [m EXCEPT !.decoder = e, !.err = e.err]
    ELSE importRow(sch, [m EXCEPT !.decoder = e], index, id,
                   parseRow(ParseState(e.buffer, <<>>), classType(sch, index), <<>>))

\* forElements: rounds n.. of its loop up to the count `total`, with `id` as
\* round n starts
RECURSIVE importRows(_, _, _, _, _, _)
\* the id delta of the round was decoded
importNext(sch, m, index, n, total, id, d) ==
    IF d.err # "" THEN [m EXCEPT !.decoder = d, !.err = d.err]
    ELSE importRows(sch,
                    importElement(sch, m, index, id + d.number,
                                  decodeElement(d, classType(sch, index))),
                    index, n + 1, total, id + d.number + 1)

importRows(sch, m, index, n, total, id) ==
    IF m.err # "" \/ n >= total THEN m
    ELSE importNext(sch, m, index, n, total, id, decodeUnsignedVarint(m.decoder))

\* forElements: the count of the class was decoded
importClass(sch, m, index, d) ==
    IF d.err # "" THEN [m EXCEPT !.decoder = d, !.err = d.err]
    ELSE importRows(sch, [m EXCEPT !.decoder = d], index, 0, d.number, 0)

\* the loop of import over the classes of the schema
RECURSIVE importClasses(_, _, _)
importClasses(sch, m, index) ==
    IF m.err # "" \/ index >= Len(sch) THEN m
    ELSE importClasses(sch,
                       importClass(sch, m, index, decodeUnsignedVarint(m.decoder)),
                       index + 1)

\* the version was decoded
importVersion(sch, conn, d) ==
    IF d.err # "" THEN [decoder |-> d, conn |-> conn, err |-> d.err]
    ELSE IF d.number # version
    THEN [decoder |-> d, conn |-> conn, err |-> "unsupported encoding verison"]
    ELSE importClasses(sch, [decoder |-> d, conn |-> conn, err |-> ""], 0)

\* an end of import that does not ask the iterator for its end
importEndUnchecked(m) ==
    IF m.err # "" THEN [ok |-> FALSE, err |-> m.err, conn |-> m.conn]
    ELSE [ok |-> TRUE, err |-> "", conn |-> [m.conn EXCEPT !.fk = TRUE]]

\* decoder.iterator.next() must report the end; then "PRAGMA foreign_keys
\* = ON" and the handle is returned
importEnd(m) ==
    IF m.err # "" THEN [ok |-> FALSE, err |-> m.err, conn |-> m.conn]
    ELSE IF m.decoder.source # <<>>
    THEN [ok |-> FALSE, err |-> "stream not closed when expected", conn |-> m.conn]
    ELSE [ok |-> TRUE, err |-> "", conn |-> [m.conn EXCEPT !.fk = TRUE]]

\* DB.import(null, schema, stream): stream is the sequence of the chunks
\* that the source yields
import(sch, stream) ==
    importEnd(importVersion(sch, [create(sch) EXCEPT !.fk = FALSE],
                            decodeUnsignedVarint(Decoder(stream))))

(***************************************************************************)
(* The wire format of section 4.3 of the specification, which is what      *)
(* tasl.encodeInstance writes.  An instance is a sequence, one entry per   *)
(* class of the schema, of functions from ids to values.                   *)
(***************************************************************************)
\* the bytes of a literal of a fixed-width datatype
literalBytes(datatype, value) ==
    CASE datatype = xsdBoolean -> IF value = "true" THEN <<1>> ELSE <<0>>
      [] datatype = xsdByte -> <<(parseInt(value) + 256) % 256>>
      [] OTHER -> <<parseInt(value)>>

RECURSIVE valueBytes(_, _)
valueBytes(type, value) ==
    CASE type.kind = "uri" -> varintEncode(Len(utf8(value.value))) \o utf8(value.value)
      [] type.kind = "literal" ->
            IF type.datatype \in {xsdBoolean, xsdByte, xsdUnsignedByte}
            THEN literalBytes(type.datatype, value.value)
            ELSE varintEncode(Len(utf8(value.value))) \o utf8(value.value)
      [] type.kind = "product" ->
            Flatten([i \in DOMAIN type.components |->
                valueBytes(type.components[i].type,
                           value.components[type.components[i].key])])
      [] type.kind = "coproduct" ->
            varintEncode(indexOfOption(type, value.key))
            \o valueBytes(type.options[indexOfOption(type, value.key) + 1].type,
                          value.value)
      [] type.kind = "reference" -> varintEncode(value.id)

\* the elements with the given ids in ascending order, each after its delta
RECURSIVE elementsBytes(_, _, _, _)
elementsBytes(type, elements, ids, delta) ==
    IF ids = {} THEN <<>>
    ELSE varintEncode(SetMin(ids) - delta)
         \o valueBytes(type, elements[SetMin(ids)])
         \o elementsBytes(type, elements, ids \ {SetMin(ids)}, SetMin(ids) + 1)

encodeInstance(sch, instance) ==
    varintEncode(version)
    \o Flatten([i \in DOMAIN sch |->
            varintEncode(Cardinality(DOMAIN instance[i]))
            \o elementsBytes(sch[i].type, instance[i], DOMAIN instance[i], 0)])

(***************************************************************************)
(* The schemas, instances and streams of the codec.                        *)
(***************************************************************************)
MaxChunks == 2      \* a stream is split into at most MaxChunks chunks

\* two classes without references
PairSchema ==
    << [key |-> "ex:Name", type |-> uri],
       [key |-> "ex:Flag", type |-> literal(xsdBoolean)] >>

\* one class of signed bytes
ByteSchema == << [key |-> "ex:Byte", type |-> literal(xsdByte)] >>

CodecSchemas == {PairSchema, ByteSchema, FlagSchema}

\* the functions from a subset of the ids to the values
partialFunctions(D, V) == UNION {[S -> V] : S \in SUBSET D}

\* the instances of the classes from position i of the schema
RECURSIVE instancesFrom(_, _)
instancesFrom(sch, i) ==
    IF i > Len(sch) THEN {<<>>}
    ELSE {<<elements>> \o rest :
            elements \in partialFunctions(Ids, valuesOf(sch[i].type, FALSE)),
            rest \in instancesFrom(sch, i + 1)}

\* every reference of the instance points to an element of the instance
consistent(sch, instance) ==
    \A i \in DOMAIN sch : \A id \in DOMAIN instance[i] :
        \A ref \in referencesOf(sch[i].type, instance[i][id]) :
            ref.id \in DOMAIN instance[indexOfKey(sch, ref.key) + 1]

\* the valid instances of the schema
instancesOf(sch) == {instance \in instancesFrom(sch, 1) : consistent(sch, instance)}

\* the valid encoded instances of the schema
encodings(sch) == {encodeInstance(sch, instance) : instance \in instancesOf(sch)}

\* the byte sequences that the model imports: the valid encoded
\* instances, each also with a byte appended, with its last byte cut, and
\* with another number in place of the version
streams(sch) ==
    UNION {{bytes, Append(bytes, 0), SubSeq(bytes, 1, Len(bytes) - 1),
            <<version - 1>> \o Tail(bytes), <<version + 1>> \o Tail(bytes)} :
           bytes \in encodings(sch)}

\* the splittings of the bytes into at most n non-empty chunks
RECURSIVE splittingsUpTo(_, _)
splittingsUpTo(bytes, n) ==
    IF bytes = <<>> THEN {<<>>}
    ELSE IF n = 0 THEN {}
    ELSE UNION {{<<SubSeq(bytes, 1, k)>> \o rest :
                    rest \in splittingsUpTo(SubSeq(bytes, k + 1, Len(bytes)), n - 1)} :
                k \in 1 .. Len(bytes)}

\* the splittings that the model imports: those of at most MaxChunks
\* chunks, and one byte per chunk
splittings(bytes) ==
    splittingsUpTo(bytes, MaxChunks) \cup {[i \in DOMAIN bytes |-> <<bytes[i]>>]}

\* the chunks with the value put in before the k-th of them
withFault(chunks, k, fault) ==
    SubSeq(chunks, 1, k - 1) \o <<fault>> \o SubSeq(chunks, k, Len(chunks))

\* the sources that yield one value the decoder does not take, a chunk of
\* length zero or a value that is not a Buffer, among the chunks of a
\* valid encoded instance
faultyStreams(sch) ==
    UNION {{withFault(chunks, k, fault) :
                k \in 1 .. Len(chunks) + 1, fault \in {<<>>, NotBuffer}} :
           chunks \in UNION {splittingsUpTo(bytes, MaxChunks) : bytes \in encodings(sch)}}

\* the options that the model passes to export
exportOptions == {<<>>, [chunkSize |-> minChunkSize], [chunkSize |-> minChunkSize + 1]}

\* the chunk sizes below the minimum, and one that is no integer
otherOptions ==
    {[chunkSize |-> c] : c \in {0, 1, minChunkSize - 1}}
        \cup {[chunkSize |-> minChunkSize, half |-> TRUE]}

(***************************************************************************)
(* Decoder.forElements and Decoder.forRows, as the sequences they yield.   *)
(* A run of forElements is a record [decoder, out, err]: out holds the     *)
(* pairs yielded so far, err the exception that ended it.                  *)
(***************************************************************************)
RECURSIVE forElementsFrom(_, _, _, _, _)
\* an element that repeats the id of the round in the next round
yieldElementSame(g, type, n, total, id, e) ==
    IF e.err # "" THEN [g EXCEPT !.decoder = e, !.err = e.err]
    ELSE forElementsFrom([g EXCEPT !.decoder = e,
                                   !.out = Append(@, [id |-> id, buffer |-> e.buffer])],
                         type, n + 1, total, id)

\* the element of the round was decoded: yield [id, element], then id++
yieldElement(g, type, n, total, id, e) ==
    IF e.err # "" THEN [g EXCEPT !.decoder = e, !.err = e.err]
    ELSE forElementsFrom([g EXCEPT !.decoder = e,
                                   !.out = Append(@, [id |-> id, buffer |-> e.buffer])],
                         type, n + 1, total, id + 1)

\* the delta of the round was decoded: id += delta
elementDelta(g, type, n, total, id, d) ==
    IF d.err # "" THEN [g EXCEPT !.decoder = d, !.err = d.err]
    ELSE yieldElement(g, type, n, total, id + d.number, decodeElement(d, type))

\* rounds n.. of the loop up to the count `total`, with `id` as round n starts
forElementsFrom(g, type, n, total, id) ==
    IF g.err # "" \/ n >= total THEN g
    ELSE elementDelta(g, type, n, total, id, decodeUnsignedVarint(g.decoder))

forElements(d, type) ==
    Bind(decodeUnsignedVarint(d), LAMBDA c :
        IF c.err # "" THEN [decoder |-> c, out |-> <<>>, err |-> c.err]
        ELSE forElementsFrom([decoder |-> c, out |-> <<>>, err |-> ""],
                             type, 0, c.number, 0))

\* the rows of the elements from the n-th on, up to the first that parseRow
\* throws on; the id of a row is kept beside its columns
RECURSIVE rowsOf(_, _, _, _)
rowsOf(type, out, n, rows) ==
    IF n > Len(out) THEN [rows |-> rows, err |-> ""]
    ELSE Bind(parseRow(ParseState(out[n].buffer, <<>>), type, <<>>), LAMBDA p :
            IF p.err # "" THEN [rows |-> rows, err |-> p.err]
            ELSE rowsOf(type, out, n + 1,
                        Append(rows, [id |-> out[n].id, row |-> p.row])))

forRows(d, type) ==
    Bind(forElements(d, type), LAMBDA g :
        Bind(rowsOf(type, g.out, 1, <<>>), LAMBDA r :
            [decoder |-> g.decoder, out |-> g.out, rows |-> r.rows,
             err |-> IF r.err # "" THEN r.err ELSE g.err]))

\* the runs of forRows in the loop of import over the classes from `index`
\* on, up to the first that throws
RECURSIVE forClasses(_, _, _)
forClasses(sch, d, index) ==
    IF index >= Len(sch) THEN <<>>
    ELSE Bind(forRows(d, classType(sch, index)), LAMBDA g :
            IF g.err # "" THEN <<g>>
            ELSE <<g>> \o forClasses(sch, g.decoder, index + 1))

\* the runs of forRows that an import of the stream makes
decoded(sch, stream) ==
    Bind(decodeUnsignedVarint(Decoder(stream)), LAMBDA d :
        IF d.err # "" \/ d.number # version THEN <<>> ELSE forClasses(sch, d, 0))

(***************************************************************************)
(* The mapping evaluator of section 4.6 of the specification, which        *)
(* DB.migrate calls as applyExpression(get, expression, targetType,        *)
(* environment).  An expression is a record with its kind; the environment *)
(* is a function from identifiers to [type, value]; a result is a record   *)
(* [ok, err, type, value].                                                 *)
(***************************************************************************)
uriExpression(value) == [kind |-> "uri", value |-> value]
literalExpression(value) == [kind |-> "literal", value |-> value]
productExpression(components) == [kind |-> "product", components |-> components]
coproductExpression(key, value) == [kind |-> "coproduct", key |-> key, value |-> value]
term(id, path) == [kind |-> "term", id |-> id, path |-> path]
match(id, path, cases) == [kind |-> "match", id |-> id, path |-> path, cases |-> cases]
projection(key) == [kind |-> "projection", key |-> key]
dereference(key) == [kind |-> "dereference", key |-> key]

Thrown(err) == [ok |-> FALSE, err |-> err, type |-> unit, value |-> unitValue]
Returned(type, value) == [ok |-> TRUE, err |-> "", type |-> type, value |-> value]

\* the components of a product type, or the options of a coproduct type,
\* by key
hasKey(parts, key) == \E i \in DOMAIN parts : parts[i].key = key
typeAt(parts, key) == parts[CHOOSE i \in DOMAIN parts : parts[i].key = key].type

\* one segment of a path: the component of a product, or the element that
\* a reference points to, read with get and bound to the type of its class
evaluateSegment(sch, conn, t, segment) ==
    IF ~t.ok THEN t
    ELSE IF segment.kind = "projection"
    THEN IF t.type.kind # "product"
         THEN Thrown("invalid projection: term value is not a product")
         ELSE IF ~hasKey(t.type.components, segment.key)
         THEN Thrown("invalid projection: no component with key")
         ELSE Returned(typeAt(t.type.components, segment.key),
                       t.value.components[segment.key])
    ELSE IF t.type.kind # "reference"
         THEN Thrown("invalid dereference: term value is not a reference")
         ELSE Bind(get(sch, conn, segment.key, t.value.id), LAMBDA r :
                IF ~r.ok THEN Thrown(r.err)
                ELSE Returned(classType(sch, indexOfKey(sch, segment.key)), r.value))

\* the fold of the path from its n-th segment on
RECURSIVE evaluatePath(_, _, _, _, _)
evaluatePath(sch, conn, t, path, n) ==
    IF n > Len(path) THEN t
    ELSE evaluatePath(sch, conn, evaluateSegment(sch, conn, t, path[n]), path, n + 1)

\* term(id, path): the identifier looked up in the environment, then the path
evaluateTerm(sch, conn, id, path, environment) ==
    IF id \notin DOMAIN environment THEN Thrown("unbound identifier")
    ELSE evaluatePath(sch, conn,
                      Returned(environment[id].type, environment[id].value), path, 1)

\* the results of the components of a product, joined
joinResults(type, parts) ==
    IF \E i \in DOMAIN parts : ~parts[i].ok
    THEN Thrown(parts[CHOOSE i \in DOMAIN parts :
                        ~parts[i].ok /\ \A j \in 1 .. i - 1 : parts[j].ok].err)
    ELSE Returned(type,
            productValue(
                [key \in {type.components[i].key : i \in DOMAIN type.components} |->
                    parts[CHOOSE i \in DOMAIN type.components :
                             type.components[i].key = key].value]))

\* the value of an option, injected
inject(type, key, r) ==
    IF ~r.ok THEN r ELSE Returned(type, coproductValue(key, r.value))

\* projection to the expected type: the kinds must match, the components
\* of a product are projected one by one, a coproduct keeps its option and
\* the datatypes of literals must be equal
RECURSIVE project(_, _, _)
project(type, value, targetType) ==
    CASE targetType.kind = "uri" ->
            IF type.kind # "uri" THEN Thrown("invalid type - expected a URI value")
            ELSE Returned(targetType, value)
      [] targetType.kind = "literal" ->
            IF type.kind # "literal" THEN Thrown("invalid type - expected a literal value")
            ELSE IF type.datatype # targetType.datatype
            THEN Thrown("invalid type - expected a literal with another datatype")
            ELSE Returned(targetType, value)
      [] targetType.kind = "product" ->
            IF type.kind # "product" THEN Thrown("invalid type - expected a product value")
            ELSE IF \E i \in DOMAIN targetType.components :
                       ~hasKey(type.components, targetType.components[i].key)
            THEN Thrown("invalid type - missing component")
            ELSE joinResults(targetType,
                    [i \in DOMAIN targetType.components |->
                        project(typeAt(type.components, targetType.components[i].key),
                                value.components[targetType.components[i].key],
                                targetType.components[i].type)])
      [] targetType.kind = "coproduct" ->
            IF type.kind # "coproduct"
            THEN Thrown("invalid type - expected a coproduct value")
            ELSE IF ~hasKey(targetType.options, value.key)
            THEN Thrown("invalid type - not an option")
            ELSE inject(targetType, value.key,
                        project(typeAt(type.options, value.key), value.value,
                                typeAt(targetType.options, value.key)))
      [] targetType.kind = "reference" ->
            IF type.kind # "reference"
            THEN Thrown("invalid type - expected a reference value")
            ELSE Returned(targetType, referenceValue(value.id))

\* the value of the term projected to the expected type
projectTerm(t, targetType) ==
    IF ~t.ok THEN t ELSE project(t.type, t.value, targetType)

\* applyExpression: the value of the expression at the expected type
RECURSIVE applyExpression(_, _, _, _, _)
\* a match that evaluates the case without binding its identifier
applyCaseUnbound(sch, conn, expression, targetType, environment, t) ==
    IF ~t.ok THEN t
    ELSE IF t.type.kind # "coproduct"
    THEN Thrown("the term value of a match expression must be a coproduct")
    ELSE IF t.value.key \notin DOMAIN expression.cases
    THEN Thrown("missing case for option")
    ELSE applyExpression(sch, conn, expression.cases[t.value.key].value, targetType,
                         environment)

\* match, its term evaluated: the case of the option of the value, with the
\* identifier of the case bound to the value of the option
applyCase(sch, conn, expression, targetType, environment, t) ==
    IF ~t.ok THEN t
    ELSE IF t.type.kind # "coproduct"
    THEN Thrown("the term value of a match expression must be a coproduct")
    ELSE IF t.value.key \notin DOMAIN expression.cases
    THEN Thrown("missing case for option")
    ELSE applyExpression(sch, conn, expression.cases[t.value.key].value, targetType,
            (expression.cases[t.value.key].id :>
                [type |-> typeAt(t.type.options, t.value.key), value |-> t.value.value])
            @@ environment)

applyExpression(sch, conn, expression, targetType, environment) ==
    CASE expression.kind = "uri" ->
            IF targetType.kind # "uri" THEN Thrown("unexpected URI expression")
            ELSE Returned(targetType, uriValue(expression.value))
      [] expression.kind = "literal" ->
            IF targetType.kind # "literal" THEN Thrown("unexpected URI expression")
            ELSE Returned(targetType, literalValue(expression.value))
      [] expression.kind = "product" ->
            IF targetType.kind # "product"
            THEN Thrown("unexpected construction expression")
            ELSE IF \E i \in DOMAIN targetType.components :
                       targetType.components[i].key \notin DOMAIN expression.components
            THEN Thrown("missing component")
            ELSE joinResults(targetType,
                    [i \in DOMAIN targetType.components |->
                        applyExpression(sch, conn,
                            expression.components[targetType.components[i].key],
                            targetType.components[i].type, environment)])
      [] expression.kind = "coproduct" ->
            IF targetType.kind # "coproduct"
            THEN Thrown("unexpected injection expression")
            ELSE IF ~hasKey(targetType.options, expression.key)
            THEN Thrown("injection key is not an option")
            ELSE inject(targetType, expression.key,
                        applyExpression(sch, conn, expression.value,
                                        typeAt(targetType.options, expression.key),
                                        environment))
      [] expression.kind = "term" ->
            projectTerm(evaluateTerm(sch, conn, expression.id, expression.path,
                                     environment),
                        targetType)
      [] expression.kind = "match" ->
            applyCase(sch, conn, expression, targetType, environment,
                      evaluateTerm(sch, conn, expression.id, expression.path,
                                   environment))

(***************************************************************************)
(* DB.migrate.  A mapping is a record [source, target, rules]: the two     *)
(* schemas and the rules [target, source, id, value] in the order of       *)
(* mapping.values().  A migration in progress is [ok, err, conn], conn the *)
(* connection of the target handle.                                        *)
(***************************************************************************)
\* the loop over the entries of the source class from the n-th on: the
\* expression is applied to the value, and the result set under the same id
RECURSIVE migrateEntries(_, _, _, _, _, _, _)
migrated(sch, conn, mapping, map, rows, n, m, v) ==
    IF ~v.ok THEN [ok |-> FALSE, err |-> v.err, conn |-> m.conn]
    ELSE Bind(set(mapping.target, m.conn, map.target, rows[n].id, v.value), LAMBDA r :
            IF ~r.ok THEN [ok |-> FALSE, err |-> r.err, conn |-> r.conn]
            ELSE migrateEntries(sch, conn, mapping, map, rows, n + 1,
                                [m EXCEPT !.conn = r.conn]))

migrateEntries(sch, conn, mapping, map, rows, n, m) ==
    IF n > Len(rows) THEN m
    ELSE migrated(sch, conn, mapping, map, rows, n, m,
            applyExpression(sch, conn, map.value,
                classType(mapping.target, indexOfKey(mapping.target, map.target)),
                map.id :> [type |-> classType(sch, indexOfKey(sch, map.source)),
                           value |-> rows[n].value]))

\* the loop over the rules of the mapping from the k-th on
RECURSIVE migrateRules(_, _, _, _, _)
migrateRule(sch, conn, mapping, k, m, e) ==
    IF ~e.ok THEN [ok |-> FALSE, err |-> e.err, conn |-> m.conn]
    ELSE migrateRules(sch, conn, mapping, k + 1,
                      migrateEntries(sch, conn, mapping, mapping.rules[k], e.out, 1, m))

migrateRules(sch, conn, mapping, k, m) ==
    IF ~m.ok \/ k > Len(mapping.rules) THEN m
    ELSE migrateRule(sch, conn, mapping, k, m,
                     entries(sch, conn, mapping.rules[k].source))

\* migrate(mapping, null): the target handle, or the error
migrate(sch, conn, mapping) ==
    IF mapping.source # sch
    THEN [ok |-> FALSE, conn |-> create(mapping.target),
          err |-> "database schema is not equal to the mapping source schema"]
    ELSE migrateRules(sch, conn, mapping, 1,
                      [ok |-> TRUE, err |-> "", conn |-> create(mapping.target)])

(***************************************************************************)
(* The handle as a state machine.                                          *)
(***************************************************************************)
\* the connection of the handle; the statement iterator of a suspended
\* export is open on it
connection ==
    [tables |-> tables, fk |-> fk, iterators |-> IF generator.iterating THEN 1 ELSE 0,
     schemas |-> schemas]

\* the call returns or throws: the handle holds the connection it leaves,
\* and the caller observes whether it threw, and with what message
complete(op, r) ==
    /\ tables' = r.conn.tables
    /\ schemas' = r.conn.schemas
    /\ fk' = r.conn.fk
    /\ last' = [op |-> op, ok |-> r.ok, err |-> r.err]
    /\ UNCHANGED <<schema, source, generator>>

\* DB.create(null, S): empty class tables; the constructor turns
\* foreign_keys on
Init ==
    /\ schema \in Schemas
    /\ tables = create(schema).tables
    /\ schemas = create(schema).schemas
    /\ fk = create(schema).fk
    /\ last = [op |-> "create", ok |-> TRUE, err |-> ""]
    /\ source = <<>>
    /\ generator = NoGenerator

Set(key, id, value) == complete("set", set(schema, connection, key, id, value))

\* ids stay within the bound: no push once the table would assign more
Push(key, value) ==
    /\ key \in classKeys(schema) =>
            nextRowid(connection, indexOfKey(schema, key)) <= MaxId
    /\ complete("push", push(schema, connection, key, value))

Merge(elements) == complete("merge", merge(schema, connection, elements))

Next ==
    \/ \E key \in classKeys(schema) \cup {UnknownKey}, id \in Ids :
          \E value \in argumentsOf(schema, key) : Set(key, id, value)
    \/ \E key \in classKeys(schema) \cup {UnknownKey} :
          \E value \in argumentsOf(schema, key) : Push(key, value)
    \/ \E elements \in mergeArguments(schema) : Merge(elements)

Spec == Init /\ [][Next]_vars

(***************************************************************************)
(* Import and export of whole instances.                                   *)
(***************************************************************************)
\* nothing was imported yet
InitCodec ==
    /\ schema \in CodecSchemas
    /\ tables = create(schema).tables
    /\ schemas = create(schema).schemas
    /\ fk = create(schema).fk
    /\ last = [op |-> "start", ok |-> TRUE, err |-> ""]
    /\ source = <<>>
    /\ generator = NoGenerator

\* await DB.import(null, schema, chunks): the handle, or the error
Import(chunks) ==
    /\ Bind(import(schema, chunks), LAMBDA r :
            /\ tables' = r.conn.tables
            /\ schemas' = r.conn.schemas
            /\ fk' = r.conn.fk
            /\ last' = [op |-> "import", ok |-> r.ok, err |-> r.err])
    /\ source' = chunks
    /\ UNCHANGED <<schema, generator>>

\* the generator returned or threw
exported(g) ==
    /\ generator' = g
    /\ last' = [op |-> "export", ok |-> g.pc = "done", err |-> g.err]

\* for await (const chunk of db.export(options)) on the imported handle
Export(options) ==
    /\ exported(export(schema, connection, options))
    /\ UNCHANGED <<schema, tables, schemas, fk, source>>

\* import is called once, and export once on the handle it returned
NextCodec ==
    \/ /\ last.op = "start"
       /\ \E bytes \in streams(schema) : \E chunks \in splittings(bytes) : Import(chunks)
    \/ /\ last.op = "start"
       /\ \E chunks \in faultyStreams(schema) : Import(chunks)
    \/ /\ last.op = "import" /\ last.ok
       /\ \E options \in exportOptions : Export(options)

SpecCodec == InitCodec /\ [][NextCodec]_vars

(***************************************************************************)
(* Export step by step, with calls on the handle while the generator is    *)
(* suspended.                                                              *)
(***************************************************************************)
\* a handle that holds an imported instance
InitExport ==
    /\ schema = PairSchema
    /\ \E instance \in instancesOf(schema) :
          /\ tables = import(schema, <<encodeInstance(schema, instance)>>).conn.tables
          /\ fk = import(schema, <<encodeInstance(schema, instance)>>).conn.fk
          /\ schemas = import(schema, <<encodeInstance(schema, instance)>>).conn.schemas
    /\ last = [op |-> "import", ok |-> TRUE, err |-> ""]
    /\ source = <<>>
    /\ generator = NoGenerator

\* db.export(options)[Symbol.asyncIterator]()
ExportCall(options) ==
    /\ generator.pc = "none"
    /\ generator' = exportCall(connection, options)
    /\ last' = [op |-> "export", ok |-> TRUE, err |-> ""]
    /\ UNCHANGED <<schema, tables, schemas, fk, source>>

\* await generator.next(): the body runs to its next yield, or to its end
ExportNext ==
    /\ generator.pc \notin {"none", "done", "failed"}
    /\ generator' = resume(schema, connection, generator)
    /\ last' = [op |-> "next", ok |-> generator'.pc # "failed", err |-> generator'.err]
    /\ UNCHANGED <<schema, tables, schemas, fk, source>>

\* the generator is suspended at a yield
suspended == generator.pc \notin {"none", "start", "done", "failed"}

\* push while the iterator of export is open, where the statement of push
\* runs through .get, which does not look at the open iterators
PushThrough(key, value) ==
    /\ generator.iterating
    /\ nextRowid(connection, indexOfKey(schema, key)) <= MaxId
    /\ complete("push", push(schema, [connection EXCEPT !.iterators = 0], key, value))

\* the elements of the merge calls made during an export
singleMerges(sch) == {<<element>> : element \in elementsOf(sch)}

NextExport ==
    \/ \E options \in exportOptions \cup otherOptions : ExportCall(options)
    \/ ExportNext
    \/ /\ suspended
       /\ \E key \in classKeys(schema) \cup {UnknownKey}, id \in Ids :
             \E value \in argumentsOf(schema, key) : Set(key, id, value)
    \/ /\ suspended
       /\ \E key \in classKeys(schema) \cup {UnknownKey} :
             \E value \in argumentsOf(schema, key) : Push(key, value)
    \/ \E key \in classKeys(schema) :
          \E value \in argumentsOf(schema, key) : PushThrough(key, value)
    \/ /\ suspended
       /\ \E elements \in singleMerges(schema) : Merge(elements)

SpecExport == InitExport /\ [][NextExport]_vars

(***************************************************************************)
(* Migration: a source handle filled by set, then migrate with a mapping.  *)
(***************************************************************************)
\* the schemas of the test "DB.migrate 2": a person with a gender that is
\* one of two units or a string, and a person with the gender as a string
PersonSchema ==
    << [key |-> "schema:Person",
        type |-> product(<<
            [key |-> "schema:name", type |-> literal(xsdString)],
            [key |-> "schema:gender",
             type |-> coproduct(<< [key |-> "schema:Male", type |-> unit],
                                   [key |-> "schema:Female", type |-> unit],
                                   [key |-> "schema:value",
                                    type |-> literal(xsdString)] >>)] >>)] >>

FlatPersonSchema ==
    << [key |-> "ex:person",
        type |-> product(<< [key |-> "ex:name", type |-> literal(xsdString)],
                            [key |-> "ex:gender", type |-> literal(xsdString)] >>)] >>

\* the mapping of the test: the gender flattened with a match
GenderMapping ==
    [source |-> PersonSchema, target |-> FlatPersonSchema,
     rules |-> <<
        [target |-> "ex:person", source |-> "schema:Person", id |-> "person",
         value |-> productExpression(
            ("ex:name" :> term("person", <<projection("schema:name")>>))
            @@ ("ex:gender" :>
                    match("person", <<projection("schema:gender")>>,
                        ("schema:Male" :>
                            [id |-> "gender", value |-> literalExpression("Male")])
                        @@ ("schema:Female" :>
                            [id |-> "gender", value |-> literalExpression("Female")])
                        @@ ("schema:value" :>
                            [id |-> "gender", value |-> term("gender", <<>>)]))))] >>]

\* every class of the library mapped to itself, element by element
personRule ==
    [target |-> "ex:Person", source |-> "ex:Person", id |-> "p",
     value |-> term("p", <<>>)]
bookRule ==
    [target |-> "ex:Book", source |-> "ex:Book", id |-> "b",
     value |-> term("b", <<>>)]

\* one class that tells whether the favorite book of a person has an author
ReaderSchema == << [key |-> "ex:Reader", type |-> literal(xsdString)] >>

\* the favorite book is read through the reference
ReaderMapping ==
    [source |-> LibrarySchema, target |-> ReaderSchema,
     rules |-> <<
        [target |-> "ex:Reader", source |-> "ex:Person", id |-> "p",
         value |-> match("p", <<projection("ex:favoriteBook"), dereference("ex:Book")>>,
                        ("ex:author" :>
                            [id |-> "a", value |-> literalExpression("signed")])
                        @@ ("ex:anonymous" :>
                            [id |-> "u", value |-> literalExpression("anonymous")]))] >>]

\* the mappings that the model migrates with; the rules of the library in
\* both orders
Mappings ==
    {GenderMapping, ReaderMapping,
     [source |-> LibrarySchema, target |-> LibrarySchema,
      rules |-> <<personRule, bookRule>>],
     [source |-> LibrarySchema, target |-> LibrarySchema,
      rules |-> <<bookRule, personRule>>]}

\* the cases of the gender mapping
genderCases == GenderMapping.rules[1].value.components["ex:gender"].cases

\* a function without the key
without(f, key) == [k \in DOMAIN f \ {key} |-> f[k]]

\* the gender mapping with other cases in its match
withCases(cases) ==
    [GenderMapping EXCEPT
        !.rules[1].value.components["ex:gender"].cases = cases]

\* mappings whose match does not evaluate for every person: a case is
\* missing, or the term of the match is the name, which is no coproduct
PartialMappings ==
    {withCases(without(genderCases, key)) : key \in DOMAIN genderCases}
    \cup {[GenderMapping EXCEPT
              !.rules[1].value.components["ex:gender"].path =
                  <<projection("schema:name")>>]}

InitMigrate ==
    /\ schema \in {LibrarySchema, PersonSchema}
    /\ tables = create(schema).tables
    /\ schemas = create(schema).schemas
    /\ fk = create(schema).fk
    /\ last = [op |-> "create", ok |-> TRUE, err |-> ""]
    /\ source = <<>>
    /\ generator = NoGenerator

\* await db.migrate(mapping, null): the target handle, or the error; the
\* source handle is left as it was
Migrate(mapping) ==
    /\ Bind(migrate(schema, connection, mapping), LAMBDA r :
            last' = [op |-> "migrate", ok |-> r.ok, err |-> r.err,
                     mapping |-> mapping, target |-> r.conn.tables,
                     targetSchemas |-> r.conn.schemas])
    /\ UNCHANGED <<schema, tables, schemas, fk, source, generator>>

\* the source handle is filled, then migrated once
NextMigrate ==
    \/ /\ last.op # "migrate"
       /\ \E key \in classKeys(schema), id \in Ids :
             \E value \in conforming(schema, key) : Set(key, id, value)
    \/ /\ last.op # "migrate"
       /\ \E mapping \in Mappings \cup PartialMappings : Migrate(mapping)

SpecMigrate == InitMigrate /\ [][NextMigrate]_vars


(***************************************************************************)
(* An encoder in the hands of a caller: the caller constructs it, calls    *)
(* its write operations one after the other and takes every chunk of each  *)
(* (for await, or yield* as export does).  The frame holds the encoder     *)
(* and the chunks taken so far; `last` holds the calls made so far, the    *)
(* encoder as it was before the last call and the chunks of the last call. *)
(***************************************************************************)
MaxWrites == 3

\* for await (const chunk of operation): the steps run until one throws
RECURSIVE perform(_, _, _)
perform(e, steps, out) ==
    IF steps = <<>> THEN [encoder |-> e, out |-> out, err |-> ""]
    ELSE Bind(runStep(e, Head(steps)), LAMBDA s :
            IF s.err # "" THEN [encoder |-> s.encoder, out |-> out, err |-> s.err]
            ELSE perform(s.encoder, s.rest \o Tail(steps), out \o s.yield))

\* the calls of the model
varintCall(value) == [name |-> "encodeUnsignedVarint", value |-> value]
valueCall(type, row) == [name |-> "encodeValue", type |-> type, row |-> row]
closeCall == [name |-> "close"]

\* the steps of a call
stepsOf(call) ==
    CASE call.name = "encodeUnsignedVarint" -> encodeUnsignedVarint(call.value)
      [] call.name = "encodeValue" -> encodeValue(call.type, <<>>, call.row)
      [] call.name = "close" -> close

\* the numbers written as varints: one, two and three bytes long
varints == {0, MSB - 1, MSB, MSB * MSB}

\* the rows written as values, each with its type
rowsWritten ==
    { [type |-> uri, row |-> (<<>> :> TextCell("u"))],
      [type |-> uri, row |-> (<<>> :> TextCell("urn:uuid:0123456789"))],
      [type |-> literal(xsdBoolean), row |-> (<<>> :> IntCell(1))],
      [type |-> literal(xsdByte), row |-> (<<>> :> IntCell(-1))],
      [type |-> literal(xsdUnsignedByte), row |-> (<<>> :> IntCell(7))],
      [type |-> literal(xsdShort), row |-> (<<>> :> IntCell(-2))],
      [type |-> literal(xsdUnsignedShort), row |-> (<<>> :> IntCell(65535))],
      [type |-> literal(xsdInt), row |-> (<<>> :> IntCell(-2))],
      [type |-> literal(xsdUnsignedInt), row |-> (<<>> :> IntCell(7))],
      [type |-> literal(xsdLong), row |-> (<<>> :> IntCell(decimal("-1")))],
      [type |-> literal(xsdUnsignedLong),
       row |-> (<<>> :> IntCell(decimal("9007199254740991")))],
      [type |-> literal(xsdFloat), row |-> (<<>> :> IntCell(5))],
      [type |-> literal(xsdDouble), row |-> (<<>> :> IntCell(-3))],
      [type |-> unit, row |-> <<>>],
      [type |-> product(<< [key |-> "ex:a", type |-> unit],
                           [key |-> "ex:b", type |-> literal(xsdByte)] >>),
       row |-> (<<1>> :> IntCell(5))] }

\* new Encoder(options), which did not throw
InitEncoder ==
    /\ schema = PairSchema
    /\ tables = create(schema).tables
    /\ schemas = create(schema).schemas
    /\ fk = create(schema).fk
    /\ source = <<>>
    /\ \E options \in exportOptions :
          generator = [NoGenerator EXCEPT !.pc = "encoder", !.options = options,
                                          !.encoder = Encoder(options)]
    /\ last = [op |-> "new", ok |-> TRUE, err |-> "", calls |-> <<>>,
               before |-> generator.encoder, chunks |-> <<>>]

\* the caller runs one write operation to its end
called(call) ==
    /\ generator.pc = "encoder"
    /\ Len(last.calls) < MaxWrites
    /\ Bind(perform(generator.encoder, stepsOf(call), <<>>), LAMBDA r :
            /\ generator' = [generator EXCEPT !.encoder = r.encoder,
                                              !.out = @ \o r.out]
            /\ last' = [op |-> call.name, ok |-> r.err = "", err |-> r.err,
                        calls |-> Append(last.calls, call),
                        before |-> generator.encoder, chunks |-> r.out])
    /\ UNCHANGED <<schema, tables, schemas, fk, source>>

EncodeUnsignedVarint(value) == called(varintCall(value))
EncodeValue(type, row) == called(valueCall(type, row))
Close == called(closeCall)

NextEncoder ==
    \/ \E value \in varints : EncodeUnsignedVarint(value)
    \/ \E written \in rowsWritten : EncodeValue(written.type, written.row)
    \/ Close

SpecEncoder == InitEncoder /\ [][NextEncoder]_vars


(***************************************************************************)
(* 64-bit integer literals: a handle with a class of xsd:long and a class  *)
(* of xsd:unsignedLong, filled by import or by set.                        *)
(***************************************************************************)
LongSchema ==
    << [key |-> "ex:Long", type |-> literal(xsdLong)],
       [key |-> "ex:UnsignedLong", type |-> literal(xsdUnsignedLong)] >>

\* the 8 bytes on the wire: the patterns around the ends of the safe range
\* and of the 64-bit range
longBytes == {writeBigInt64BE(decimal(s)) : s \in decimals}

\* the encoded instances with one element, of id 0, in one of the classes
longStreams ==
    {<<version, 1, 0>> \o bytes \o <<0>> : bytes \in longBytes}
        \cup {<<version, 0, 1, 0>> \o bytes : bytes \in longBytes}

\* a stream in one chunk, and cut inside the literal
longChunks(bytes) ==
    {<<bytes>>, <<SubSeq(bytes, 1, 6), SubSeq(bytes, 7, Len(bytes))>>}

InitLong ==
    /\ schema = LongSchema
    /\ tables = create(schema).tables
    /\ schemas = create(schema).schemas
    /\ fk = create(schema).fk
    /\ last = [op |-> "create", ok |-> TRUE, err |-> ""]
    /\ source = <<>>
    /\ generator = NoGenerator

\* db.set(key, id, literal) with the literal of the lexical form s; the
\* caller keeps what it passed
SetLiteral(key, id, s) ==
    /\ Bind(set(schema, connection, key, id, literalValue(s)), LAMBDA r :
            /\ tables' = r.conn.tables
            /\ schemas' = r.conn.schemas
            /\ fk' = r.conn.fk
            /\ last' = [op |-> "set", ok |-> r.ok, err |-> r.err,
                        key |-> key, id |-> id, value |-> s])
    /\ UNCHANGED <<schema, source, generator>>

\* the handle is the one that import returns, or the one that was created
\* and on which literals are set, at the id of the imported ones
NextLong ==
    \/ /\ last.op = "create"
       /\ \E bytes \in longStreams : \E chunks \in longChunks(bytes) : Import(chunks)
    \/ /\ last.op # "import"
       /\ \E key \in classKeys(schema), s \in decimals : SetLiteral(key, 0, s)

SpecLong == InitLong /\ [][NextLong]_vars


(***************************************************************************)
(* A decoder in the hands of a caller that reads unsigned varints from a   *)
(* chunked stream, one decodeUnsignedVarint call after the other.  `last`  *)
(* holds the decoder, the integers that were encoded, as bits, and the     *)
(* numbers returned so far.                                                *)
(***************************************************************************)
MaxVarints == 2

\* the integers that are encoded: of 1, 2, 4, 5 and 8 bytes, up to 2^53 - 1
unsignedIntegers ==
    {<<>>, zeros(7) \o <<1>>, ones(28), zeros(28) \o <<1>>, ones(significand)}

\* varint.encode on the bits of an integer: groups of 7 bits, the least
\* significant group first, each but the last with the continuation bit
leb128(bits) ==
    Bind(IF bits = <<>> THEN 1 ELSE (Len(bits) + 6) \div 7, LAMBDA n :
        [k \in 1 .. n |->
            natOfBits(SubSeq(bits \o zeros(7 * n - Len(bits)), 7 * k - 6, 7 * k))
            + (IF k < n THEN MSB ELSE 0)])

\* the sequences of at most MaxVarints integers
integerSequences == UNION {[1 .. n -> unsignedIntegers] : n \in 1 .. MaxVarints}

\* the bytes of the integers, concatenated
encoded(integers) == Flatten([i \in DOMAIN integers |-> leb128(integers[i])])

\* new Decoder(stream) on a splitting of the bytes
InitVarint ==
    /\ schema = PairSchema
    /\ tables = create(schema).tables
    /\ schemas = create(schema).schemas
    /\ fk = create(schema).fk
    /\ generator = NoGenerator
    /\ \E integers \in integerSequences :
          /\ source \in splittings(encoded(integers))
          /\ last = [op |-> "new", ok |-> TRUE, err |-> "", integers |-> integers,
                     decoder |-> Decoder(source), returned |-> <<>>]

\* await decoder.decodeUnsignedVarint(): as many calls as integers, and
\* one more
DecodeUnsignedVarint ==
    /\ last.op \in {"new", "decodeUnsignedVarint"}
    /\ "decoder" \in DOMAIN last
    /\ last.ok
    /\ Len(last.returned) <= Len(last.integers)
    /\ Bind(decodeUnsignedVarint(last.decoder), LAMBDA d :
            last' = [last EXCEPT
                        !.op = "decodeUnsignedVarint",
                        !.ok = d.err = "",
                        !.err = d.err,
                        !.decoder = d,
                        !.returned = IF d.err = "" THEN Append(@, d.number) ELSE @])
    /\ UNCHANGED <<schema, tables, schemas, fk, source, generator>>

NextVarint == DecodeUnsignedVarint

SpecVarint == InitVarint /\ [][NextVarint]_vars

(***************************************************************************)
(* The same caller on streams that hold varints of any length: next to     *)
(* the integers up to 2^53 - 1, the largest integer that fits 8 bytes and  *)
(* the smallest one that takes 9.                                          *)
(***************************************************************************)
\* 2^56 - 1, of 8 bytes, and 2^56, of 9 bytes
oversizedIntegers == {ones(56), zeros(56) \o <<1>>}

anyIntegerSequences ==
    UNION {[1 .. n -> unsignedIntegers \cup oversizedIntegers] : n \in 1 .. MaxVarints}

InitAnyVarint ==
    /\ schema = PairSchema
    /\ tables = create(schema).tables
    /\ schemas = create(schema).schemas
    /\ fk = create(schema).fk
    /\ generator = NoGenerator
    /\ \E integers \in anyIntegerSequences :
          /\ source \in splittings(encoded(integers))
          /\ last = [op |-> "new", ok |-> TRUE, err |-> "", integers |-> integers,
                     decoder |-> Decoder(source), returned |-> <<>>]

SpecAnyVarint == InitAnyVarint /\ [][NextVarint]_vars

(***************************************************************************)
(* A decoder under the calls that readValue, decodeElement and             *)
(* decodeUnsignedVarint make of its private methods, in any order, on a    *)
(* chunked stream.  `last` holds the decoder and the bytes of the stream,  *)
(* and counts what the caller asked for: `requested` bytes scanned since   *)
(* the last flush, `consumed` bytes flushed.                               *)
(***************************************************************************)
MaxSkip == 3

\* streams of distinct bytes, with and without varints of two bytes
scannedBytes == {<<1, 2, 3, 4>>, <<129, 2, 3>>, <<1, 130, 3, 4>>, <<5>>}

InitDecoder ==
    /\ schema = PairSchema
    /\ tables = create(schema).tables
    /\ schemas = create(schema).schemas
    /\ fk = create(schema).fk
    /\ generator = NoGenerator
    /\ \E bytes \in scannedBytes :
          /\ source \in splittings(bytes)
          /\ last = [op |-> "new", ok |-> TRUE, err |-> "", bytes |-> bytes,
                     decoder |-> Decoder(source), requested |-> 0, consumed |-> 0]

\* the decoder that a call leaves, and what the caller has asked for
scanned(op, d, requested, consumed) ==
    /\ last' = [last EXCEPT !.op = op, !.ok = d.err = "", !.err = d.err,
                            !.decoder = d, !.requested = requested,
                            !.consumed = consumed]
    /\ UNCHANGED <<schema, tables, schemas, fk, source, generator>>

\* the bytes of the varint that starts after `offset` bytes: up to the
\* first byte without the continuation bit
varintBytes(bytes, offset) ==
    IF \E i \in offset + 1 .. Len(bytes) : bytes[i] < MSB
    THEN (CHOOSE i \in offset + 1 .. Len(bytes) :
            /\ bytes[i] < MSB
            /\ \A j \in offset + 1 .. i - 1 : bytes[j] >= MSB) - offset
    ELSE Len(bytes) - offset + 1

\* await this.skip(n); readValue skips a fixed width, which is not 0, or
\* the length that a varint just gave
Skip(n) ==
    /\ last.op \in {"new", "skip", "readUnsignedVarint", "collect", "flush"}
    /\ "requested" \in DOMAIN last
    /\ last.ok
    /\ n > 0 \/ last.op = "readUnsignedVarint"
    /\ scanned("skip", skip(last.decoder, n), last.requested + n, last.consumed)

\* await this.readUnsignedVarint()
ReadUnsignedVarint ==
    /\ last.op \in {"new", "skip", "readUnsignedVarint", "collect", "flush"}
    /\ "requested" \in DOMAIN last
    /\ last.ok
    /\ scanned("readUnsignedVarint", readUnsignedVarint(last.decoder),
               last.requested
               + varintBytes(last.bytes, last.consumed + last.requested),
               last.consumed)

\* this.collect()
Collect ==
    /\ last.op \in {"new", "skip", "readUnsignedVarint", "collect", "flush"}
    /\ "requested" \in DOMAIN last
    /\ last.ok
    /\ scanned("collect", collect(last.decoder), last.requested, last.consumed)

\* this.flush()
Flush ==
    /\ last.op \in {"new", "skip", "readUnsignedVarint", "collect", "flush"}
    /\ "requested" \in DOMAIN last
    /\ last.ok
    /\ scanned("flush", flush(last.decoder), 0, last.consumed + last.requested)

NextDecoder ==
    \/ \E n \in 0 .. MaxSkip : Skip(n)
    \/ ReadUnsignedVarint
    \/ Collect
    \/ Flush

SpecDecoder == InitDecoder /\ [][NextDecoder]_vars

(***************************************************************************)
(* The rounds of forElements on a stream of elements of one type: each     *)
(* round reads the delta of an element and then its value.  `last` holds   *)
(* the type, the elements that were encoded and what the rounds returned.  *)
(***************************************************************************)
MaxElements == 2

elementTypes ==
    {uri, literal(xsdString), literal(xsdBoolean), literal(xsdUnsignedByte), unit,
     reference("ex:Name"),
     product(<< [key |-> "ex:a", type |-> uri],
                [key |-> "ex:b", type |-> literal(xsdBoolean)] >>),
     coproduct(<< [key |-> "ex:none", type |-> unit],
                  [key |-> "ex:some", type |-> literal(xsdString)] >>)}

\* the values of the type, with an empty string and a uri of 19 bytes
elementValues(type) ==
    valuesOf(type, FALSE)
    \cup (IF type = literal(xsdString) THEN {literalValue("")} ELSE {})
    \cup (IF type = uri THEN {uriValue("urn:uuid:0123456789")} ELSE {})

\* the deltas of one and of two bytes
deltas == {0, 200}

elementSequences(type) ==
    UNION {[1 .. n -> [delta : deltas, value : elementValues(type)]] :
           n \in 1 .. MaxElements}

\* the bytes of the elements from the n-th on, each after its delta
elementBytesFrom(type, elements, n) ==
    Flatten([i \in 1 .. Len(elements) - n + 1 |->
        varintEncode(elements[n + i - 1].delta)
        \o valueBytes(type, elements[n + i - 1].value)])

InitElements ==
    /\ schema = PairSchema
    /\ tables = create(schema).tables
    /\ schemas = create(schema).schemas
    /\ fk = create(schema).fk
    /\ generator = NoGenerator
    /\ \E type \in elementTypes : \E elements \in elementSequences(type) :
          /\ source \in splittings(elementBytesFrom(type, elements, 1))
          /\ last = [op |-> "new", ok |-> TRUE, err |-> "", type |-> type,
                     elements |-> elements, decoder |-> Decoder(source),
                     yielded |-> <<>>]

\* a round of forElements: id += await this.decodeUnsignedVarint(), then
\* await this.decodeElement(type)
ForElementsRound ==
    /\ last.op \in {"new", "forElements"}
    /\ "yielded" \in DOMAIN last
    /\ last.ok
    /\ Len(last.yielded) < Len(last.elements)
    /\ Bind(decodeUnsignedVarint(last.decoder), LAMBDA d :
        Bind(decodeElement(d, last.type), LAMBDA e :
            last' = [last EXCEPT
                        !.op = "forElements",
                        !.ok = e.err = "",
                        !.err = e.err,
                        !.decoder = e,
                        !.yielded = IF e.err = ""
                                    THEN Append(@, [delta |-> d.number,
                                                    buffer |-> e.buffer])
                                    ELSE @]))
    /\ UNCHANGED <<schema, tables, schemas, fk, source, generator>>

NextElements == ForElementsRound

SpecElements == InitElements /\ [][NextElements]_vars

(***************************************************************************)
(* The shredder on the values of types that nest products and coproducts.  *)
(* `last` holds the type, the value and the row that serializeValue built. *)
(***************************************************************************)
\* unit, a boolean or a reference
choiceType ==
    coproduct(<< [key |-> "ex:none", type |-> unit],
                 [key |-> "ex:flag", type |-> literal(xsdBoolean)],
                 [key |-> "ex:ref", type |-> reference("ex:Name")] >>)

shreddedTypes ==
    {uri, literal(xsdBoolean), unit, reference("ex:Name"), choiceType,
     product(<< [key |-> "ex:a", type |-> choiceType],
                [key |-> "ex:b", type |-> choiceType],
                [key |-> "ex:c", type |-> choiceType] >>),
     coproduct(<< [key |-> "ex:left", type |-> choiceType],
                  [key |-> "ex:right",
                   type |-> product(<< [key |-> "ex:a", type |-> uri],
                                       [key |-> "ex:b", type |-> choiceType],
                                       [key |-> "ex:c",
                                        type |-> literal(xsdUnsignedByte)] >>)] >>)}

InitShredder ==
    /\ schema = PairSchema
    /\ tables = create(schema).tables
    /\ schemas = create(schema).schemas
    /\ fk = create(schema).fk
    /\ generator = NoGenerator
    /\ source = <<>>
    /\ \E type \in shreddedTypes :
          last = [op |-> "new", ok |-> TRUE, err |-> "", type |-> type,
                  value |-> unitValue, row |-> <<>>]

\* serializeValue(type, value) on a value that conforms to the type
SerializeValue(value) ==
    /\ last.op \in {"new", "serializeValue"}
    /\ "row" \in DOMAIN last
    /\ Bind(serializeValue(last.type, value), LAMBDA r :
            last' = [last EXCEPT !.op = "serializeValue", !.ok = r.ok,
                                 !.err = IF r.ok THEN "" ELSE "internal type error",
                                 !.value = value, !.row = r.params])
    /\ UNCHANGED <<schema, tables, schemas, fk, source, generator>>

NextShredder == \E value \in valuesOf(last.type, FALSE) : SerializeValue(value)

SpecShredder == InitShredder /\ [][NextShredder]_vars

(***************************************************************************)
(* DB.import step by step: the version, then for every class its count     *)
(* and the rounds of forRows, each with the upsert of its row, then the    *)
(* test of the iterator's end.  `last` holds the import in progress, the   *)
(* class index and the variables of the loop of forElements.               *)
(***************************************************************************)
\* a stream whose first class announces more elements than it holds
overcounted == <<version>> \o varintEncode(200) \o <<0>>

\* the sources of the imports that run step by step
importedSources(sch) ==
    UNION {splittings(bytes) : bytes \in streams(sch) \cup {overcounted}}
    \cup faultyStreams(sch)

\* DB.import was not called yet
InitImport ==
    /\ schema \in CodecSchemas
    /\ tables = create(schema).tables
    /\ schemas = create(schema).schemas
    /\ fk = create(schema).fk
    /\ generator = NoGenerator
    /\ source = <<>>
    /\ last = [op |-> "start", ok |-> TRUE, err |-> ""]

\* DB.import(null, schema, chunks) up to new Decoder(stream)
ImportCall(chunks) ==
    /\ last.op = "start"
    /\ source' = chunks
    /\ fk' = FALSE
    /\ last' = [op |-> "import", ok |-> TRUE, err |-> "", pc |-> "version",
                m |-> [decoder |-> Decoder(chunks),
                       conn |-> [create(schema) EXCEPT !.fk = FALSE], err |-> ""],
                index |-> 0, n |-> 0, total |-> 0, id |-> 0]
    /\ UNCHANGED <<schema, tables, schemas, generator>>

\* where the import goes on after a step that left m, in class `index`
\* with n of `total` rounds done
proceed(m, index, n, total, id) ==
    /\ last' = [last EXCEPT
                  !.m = m, !.err = m.err, !.ok = m.err = "",
                  !.pc = IF m.err # "" THEN "threw"
                         ELSE IF n < total THEN "round"
                         ELSE IF index + 1 < Len(schema) THEN "count"
                         ELSE "end",
                  !.index = IF m.err = "" /\ n >= total THEN index + 1 ELSE index,
                  !.n = n, !.total = total, !.id = id]
    /\ tables' = m.conn.tables
    /\ UNCHANGED <<schema, schemas, fk, source, generator>>

\* const version = await decoder.decodeUnsignedVarint(), and its test
ImportVersion ==
    /\ last.op = "import" /\ "pc" \in DOMAIN last /\ last.pc = "version"
    /\ \E d \in {decodeUnsignedVarint(last.m.decoder)} :
          proceed([last.m EXCEPT
                      !.decoder = d,
                      !.err = IF d.err # "" THEN d.err
                              ELSE IF d.number # version
                              THEN "unsupported encoding verison" ELSE ""],
                  -1, 0, 0, 0)

\* forElements: const count = await this.decodeUnsignedVarint()
ImportCount ==
    /\ last.op = "import" /\ "pc" \in DOMAIN last /\ last.pc = "count"
    /\ \E d \in {decodeUnsignedVarint(last.m.decoder)} :
          proceed([last.m EXCEPT !.decoder = d, !.err = d.err],
                  last.index, 0, IF d.err = "" THEN d.number ELSE 0, 0)

\* the round after its delta was decoded: decodeElement, parseRow and the
\* upsert of the row
importRound(d) ==
    IF d.err # "" THEN [last.m EXCEPT !.decoder = d, !.err = d.err]
    ELSE importElement(schema, last.m, last.index, last.id + d.number,
                       decodeElement(d, classType(schema, last.index)))

\* a round of forElements and forRows, and the upsert of the row
ImportRound ==
    /\ last.op = "import" /\ "pc" \in DOMAIN last /\ last.pc = "round"
    /\ \E d \in {decodeUnsignedVarint(last.m.decoder)} :
          \E m \in {importRound(d)} :
              IF d.err # ""
              THEN proceed(m, last.index, last.n, last.total, last.id)
              ELSE proceed(m, last.index, last.n + 1, last.total,
                           last.id + d.number + 1)

\* the test of the iterator's end, "PRAGMA foreign_keys = ON" and return
ImportReturn ==
    /\ last.op = "import" /\ "pc" \in DOMAIN last /\ last.pc = "end"
    /\ \E r \in {importEnd(last.m)} :
          /\ last' = [last EXCEPT !.ok = r.ok, !.err = r.err,
                                  !.pc = IF r.ok THEN "returned" ELSE "threw",
                                  !.m = [@ EXCEPT !.conn = r.conn, !.err = r.err]]
          /\ tables' = r.conn.tables
          /\ fk' = r.conn.fk
    /\ UNCHANGED <<schema, schemas, source, generator>>

\* the continuations of an import in progress
ImportStep == ImportVersion \/ ImportCount \/ ImportRound \/ ImportReturn

NextImport ==
    \/ /\ last.op = "start"
       /\ \E chunks \in importedSources(schema) : ImportCall(chunks)
    \/ ImportStep

SpecImport == InitImport /\ [][NextImport]_vars

(***************************************************************************)
(* Properties of import and export.                                        *)
(***************************************************************************)
\* the bytes of the imported stream
imported == concat(source)

\* C1: when the imported stream is a valid encoded instance of the schema,
\* in whatever splitting, import succeeds and the chunks of export on the
\* handle concatenate to the imported bytes
ImportExportRoundTrip ==
    (last.op = "import" /\ imported \in encodings(schema)) =>
        /\ last.ok
        /\ \A options \in exportOptions :
              concat(export(schema, connection, options).out) = imported

\* C3: the import of a chunked stream ends as the import of the same bytes
\* in one chunk does: both fail, or both succeed with the same elements
ImportIgnoresChunking ==
    last.op = "import" =>
        Bind(import(schema, <<imported>>), LAMBDA r :
            /\ r.ok = last.ok
            /\ r.ok => r.conn.tables = tables)

\* C10: a finished export wrote for every class as many elements as the
\* count it wrote before them, and its output is the output of an
\* undisturbed export of the database as it was when export was called
ExportSnapshot ==
    generator.pc = "done" =>
        /\ generator.counts = generator.rows
        /\ concat(generator.out) =
              concat(export(schema,
                            [tables |-> generator.start, fk |-> TRUE, iterators |-> 0],
                            generator.options).out)

(***************************************************************************)
(* Properties of the scans, of count and of push.                          *)
(***************************************************************************)
\* the sequence is strictly ascending
ascending(ids) == \A n \in 1 .. Len(ids) - 1 : ids[n] < ids[n + 1]

\* the ids of the pairs that entries yields
entryIds(r) == [n \in DOMAIN r.out |-> r.out[n].id]

\* C11: for every class, keys yields the stored ids in strictly ascending
\* order, each once; entries yields the same ids, each with the value that
\* get returns for it, and values yields those values in the same order
ScansAscending ==
    \A key \in classKeys(schema) :
        /\ keys(schema, connection, key).ok
        /\ ascending(keys(schema, connection, key).out)
        /\ \A id \in Ids :
              has(schema, connection, key, id) =
                (\E n \in DOMAIN keys(schema, connection, key).out :
                    keys(schema, connection, key).out[n] = id)
        /\ Bind(entries(schema, connection, key), LAMBDA r :
              /\ r.ok
              /\ entryIds(r) = keys(schema, connection, key).out
              /\ \A n \in DOMAIN r.out :
                    get(schema, connection, key, r.out[n].id).value = r.out[n].value
              /\ values(schema, connection, key).out
                    = [n \in DOMAIN r.out |-> r.out[n].value])

\* C11, its case: a set has stored the larger id of a class first, and a
\* set of the smaller id then makes keys yield the smaller one first
ScanAfterDescendingSets ==
    /\ last.op = "set" /\ last.ok
    /\ \E key \in classKeys(schema) :
          /\ keys(schema, connection, key).out = <<MaxId>>
          /\ \E value \in conforming(schema, key) :
                /\ set(schema, connection, key, 0, value).ok
                /\ keys(schema, set(schema, connection, key, 0, value).conn, key).out
                      = <<0, MaxId>>

\* C12: for every class, count is the number of distinct ids that keys
\* yields
CountMatchesKeys ==
    \A key \in classKeys(schema) :
        count(schema, connection, key)
            = Cardinality(Range(keys(schema, connection, key).out))

\* C12, its case: a push has succeeded and a class holds elements whose
\* ids do not start at 0, which count and keys both report
CountOfSparseIds ==
    /\ last.op = "push" /\ last.ok
    /\ \E key \in classKeys(schema) :
          /\ ~has(schema, connection, key, 0)
          /\ count(schema, connection, key) = 1
          /\ Len(keys(schema, connection, key).out) = 1

\* push twice in a row returns a larger id the second time
pushedAgain(sch, r, key, value) ==
    Bind(push(sch, r.conn, key, value), LAMBDA q : q.ok => q.id > r.id)

\* C13: for every class and conforming value, a push that succeeds returns
\* an id larger than every id stored in the class, stores the value under
\* it, leaves every other element as it was, and a push right after it
\* returns a larger id still
PushReturnsFreshId ==
    \A key \in classKeys(schema) :
        \A value \in conforming(schema, key) :
            Bind(push(schema, connection, key, value), LAMBDA r :
                r.ok =>
                    /\ \A n \in DOMAIN keys(schema, connection, key).out :
                          r.id > keys(schema, connection, key).out[n]
                    /\ ~has(schema, connection, key, r.id)
                    /\ get(schema, r.conn, key, r.id).value = value
                    /\ \A n \in DOMAIN keys(schema, connection, key).out :
                          get(schema, r.conn, key, keys(schema, connection, key).out[n])
                            = get(schema, connection, key,
                                  keys(schema, connection, key).out[n])
                    /\ pushedAgain(schema, r, key, value))

\* C13, its case: a set has stored the id MaxId in a class that holds no
\* smaller id, and the push that follows returns MaxId + 1
PushAfterSet ==
    /\ last.op = "set" /\ last.ok
    /\ \E key \in classKeys(schema) :
          /\ keys(schema, connection, key).out = <<MaxId>>
          /\ \E value \in conforming(schema, key) :
                /\ push(schema, connection, key, value).ok
                /\ push(schema, connection, key, value).id = MaxId + 1

(***************************************************************************)
(* Properties of the stored rows.                                          *)
(***************************************************************************)
\* the columns of the type at the path are as the shredder leaves them:
\* where the path is `live` (every coproduct above it chose the option it
\* lies under) a leaf column is not null and a coproduct column holds the
\* index of one of its options, whose columns are live in turn; every
\* column under another option, and under a path that is not live, is null
RECURSIVE optionColumns(_, _, _, _)
optionColumns(type, path, row, live) ==
    CASE type.kind \in {"uri", "literal", "reference"} ->
            /\ getPropertyName(path) \in DOMAIN row
            /\ (row[getPropertyName(path)] = Null) = ~live
      [] type.kind = "product" ->
            \A i \in DOMAIN type.components :
                optionColumns(type.components[i].type, Append(path, i - 1), row, live)
      [] type.kind = "coproduct" ->
            /\ getPropertyName(path) \in DOMAIN row
            /\ IF live
               THEN /\ isNumber(row[getPropertyName(path)])
                    /\ row[getPropertyName(path)].int + 1 \in DOMAIN type.options
               ELSE row[getPropertyName(path)] = Null
            /\ \A i \in DOMAIN type.options :
                  optionColumns(type.options[i].type, Append(path, i - 1), row,
                                live /\ row[getPropertyName(path)] = IntCell(i - 1))

\* the stored row is the row of the value that get returns for it
rowOfValue(sch, conn, key, id) ==
    conn.tables[indexOfKey(sch, key)][id]
        = serializeValue(classType(sch, indexOfKey(sch, key)),
                         get(sch, conn, key, id).value).params

\* C14: in every stored row each coproduct column holds the index of an
\* option, the one of the value that get returns, and every column under
\* another option is null
StoredOptionColumns ==
    \A key \in classKeys(schema) :
        \A id \in DOMAIN tables[indexOfKey(schema, key)] :
            /\ optionColumns(classType(schema, indexOfKey(schema, key)), <<>>,
                             tables[indexOfKey(schema, key)][id], TRUE)
            /\ get(schema, connection, key, id).ok
            /\ rowOfValue(schema, connection, key, id)

\* C14, its case: a class holds an element of option 0 with a cell under
\* that option, and the set of a value of option 1 under the same id
\* succeeds and leaves the column under option 0 null
OverwrittenWithOtherOption ==
    \E key \in classKeys(schema) :
        \E id \in DOMAIN tables[indexOfKey(schema, key)] :
            /\ classType(schema, indexOfKey(schema, key)).kind = "coproduct"
            /\ tables[indexOfKey(schema, key)][id][<<>>] = IntCell(0)
            /\ tables[indexOfKey(schema, key)][id][<<0>>] # Null
            /\ \E value \in conforming(schema, key) :
                  Bind(set(schema, connection, key, id, value), LAMBDA r :
                      /\ r.ok
                      /\ r.conn.tables[indexOfKey(schema, key)][id][<<>>] = IntCell(1)
                      /\ r.conn.tables[indexOfKey(schema, key)][id][<<0>>] = Null)

(***************************************************************************)
(* Properties of get, and of what the operations leave in place.           *)
(***************************************************************************)
\* the ids that the model asks for: those it stores, and one more
AskedIds == Ids \cup {MaxId + 1}

\* C22: for every class and id, get returns a value exactly when has
\* returns true, and otherwise throws 'no element in <key> with id <id>'
GetFailsWhenMissing ==
    \A key \in classKeys(schema) :
        \A id \in AskedIds :
            Bind(get(schema, connection, key, id), LAMBDA r :
                /\ r.ok = has(schema, connection, key, id)
                /\ ~r.ok => r.err = "no element")

\* C22, its case: a set has stored one id of a class and not the other;
\* get returns the value of the first and throws for the second
GetOfStoredAndMissing ==
    /\ last.op = "set" /\ last.ok
    /\ \E key \in classKeys(schema) :
          /\ has(schema, connection, key, 0)
          /\ get(schema, connection, key, 0).ok
          /\ ~has(schema, connection, key, MaxId)
          /\ get(schema, connection, key, MaxId).err = "no element"

\* the ids for which has returns true
storedIds(key) == {id \in AskedIds : has(schema, connection, key, id)}

\* C23: no step removes an element: every id for which has returns true
\* before a set, push or merge, failed or not, has it return true after
\* it, and count does not decrease
NothingRemoved ==
    [][\A key \in classKeys(schema) :
          /\ storedIds(key) \subseteq storedIds(key)'
          /\ count(schema, connection, key)' >= count(schema, connection, key)]_vars

\* C23, its case: a merge has failed on a handle that holds an element
FailedMergeOnStored ==
    /\ last.op = "merge" /\ ~last.ok
    /\ \E key \in classKeys(schema) : storedIds(key) # {}


\* the schema that reopening reads from the row of setSchema: DB.open is
\* getSchema followed by the constructor
reopened == getSchema(schemas)

sameElsewhere(sch, before, after, key, id) ==
    /\ \A other \in classKeys(sch), i \in 0 .. MaxId + 2 :
          (other # key \/ i # id) =>
              /\ has(sch, after, other, i) = has(sch, before, other, i)
              /\ get(sch, after, other, i) = get(sch, before, other, i)
    /\ \A other \in classKeys(sch) \ {key} :
          count(sch, after, other) = count(sch, before, other)

\* C38: set(k, i, v) and push(k, v) change only the element they write,
\* whether they succeed or throw: every other id of class k and every
\* element of every other class keeps its value, and has and count of the
\* other classes are unchanged
WritesOnlyTheirElement ==
    \A key \in classKeys(schema) :
        \A value \in argumentsOf(schema, key) :
            /\ \A id \in Ids :
                  sameElsewhere(schema, connection,
                                set(schema, connection, key, id, value).conn, key, id)
            /\ Bind(push(schema, connection, key, value), LAMBDA r :
                  sameElsewhere(schema, connection, r.conn, key, r.id))

\* a set has succeeded in a class that holds another element, beside
\* another class that holds one
SetBesideOthers ==
    /\ last.op = "set" /\ last.ok
    /\ \E key \in classKeys(schema) :
          /\ count(schema, connection, key) >= 2
          /\ \E other \in classKeys(schema) \ {key} :
                count(schema, connection, other) >= 1

(***************************************************************************)
(* Properties of the decoder and of the errors of import.                  *)
(***************************************************************************)
\* the names of the columns of the class table
columnNames(sch, index) ==
    {tableColumns(sch, index)[i].name : i \in DOMAIN tableColumns(sch, index)}

\* C15: every row that forRows yields during an import holds every column
\* of the class table, with the cells of the chosen options and null in the
\* columns of the options that were not chosen
DecodedRowsComplete ==
    last.op = "import" =>
        Bind(decoded(schema, source), LAMBDA runs :
            \A c \in DOMAIN runs :
                \A n \in DOMAIN runs[c].rows :
                    /\ columnNames(schema, c - 1) \subseteq DOMAIN runs[c].rows[n].row
                    /\ optionColumns(classType(schema, c - 1), <<>>,
                                     runs[c].rows[n].row, TRUE))

\* the chunks of the source are chunks of bytes
buffers(chunks) == \A n \in DOMAIN chunks : chunks[n] # NotBuffer /\ chunks[n] # <<>>

\* C16: when the import of the first chunks of the source alone succeeds,
\* which is when the last element of the last class is decoded from them,
\* and the source yields more, import fails with 'stream not closed when
\* expected'
ImportRequiresEnd ==
    (/\ last.op = "import"
     /\ \E n \in 1 .. Len(source) - 1 : import(schema, SubSeq(source, 1, n)).ok)
        => ~last.ok /\ last.err = "stream not closed when expected"

\* C16, its case: the source has yielded a whole encoded instance in its
\* first chunk and then a chunk of one byte, and the import failed
ImportWithTrailingChunk ==
    /\ last.op = "import" /\ ~last.ok
    /\ Len(source) = 2
    /\ source[1] \in encodings(schema)
    /\ source[2] = <<0>>
    /\ import(schema, <<source[1]>>).ok

endedEarly == "could not decode stream: iterable ended early"

\* the position of the first value of the source that is not a chunk of
\* bytes, 0 when there is none
firstFault(chunks) ==
    IF buffers(chunks) THEN 0
    ELSE CHOOSE k \in DOMAIN chunks :
            ~buffers(<<chunks[k]>>) /\ buffers(SubSeq(chunks, 1, k - 1))

\* what next() throws for the value
faultError(value) ==
    IF value = NotBuffer THEN "could not decode stream: value is not a Buffer"
    ELSE "could not decode stream: buffer chunks cannot be length zero"

\* the bytes are a proper prefix of a valid encoded instance
truncated(sch, bytes) ==
    \E whole \in encodings(sch) :
        Len(bytes) < Len(whole) /\ bytes = SubSeq(whole, 1, Len(bytes))

\* the exception that ended the last run of forRows
lastError(runs) == IF runs = <<>> THEN "" ELSE runs[Len(runs)].err

\* C17: an import whose source ends within an encoded instance fails, the
\* decoder throwing 'iterable ended early'; and where the chunks before a
\* value that is not a Buffer, or before a chunk of length zero, leave the
\* decoder in need of a byte, the import fails with the error of that value
DecoderNeedsChunk ==
    last.op = "import" =>
        /\ (buffers(source) /\ truncated(schema, imported)) =>
                /\ ~last.ok
                /\ lastError(decoded(schema, source)) = endedEarly
        /\ (/\ firstFault(source) > 0
            /\ import(schema, SubSeq(source, 1, firstFault(source) - 1)).err = endedEarly) =>
                /\ ~last.ok
                /\ last.err = faultError(source[firstFault(source)])

\* C17, its case: the source has yielded the first bytes of an encoded
\* instance, then a value that is not a Buffer where the decoder needed the
\* next byte, and the import failed
ImportOfFaultyChunk ==
    /\ last.op = "import" /\ ~last.ok
    /\ Len(source) = 3
    /\ source[2] = NotBuffer
    /\ source[1] \o source[3] \in encodings(schema)
    /\ import(schema, <<source[1]>>).err = endedEarly
    /\ last.err = "could not decode stream: value is not a Buffer"

\* the stream starts with a varint that is not the version of the library
otherVersion(chunks) ==
    /\ buffers(chunks) /\ chunks # <<>>
    /\ varintDecode(concat(chunks), 0).ok
    /\ varintDecode(concat(chunks), 0).value # version

\* C18: an import of a stream whose first varint is not the version fails
\* with the error 'unsupported encoding version', and no element is written
VersionRejected ==
    (last.op = "import" /\ otherVersion(source)) =>
        /\ ~last.ok
        /\ last.err = "unsupported encoding version"
        /\ tables = create(schema).tables

\* the same with the message as the code spells it
VersionRejectedAsSpelled ==
    (last.op = "import" /\ otherVersion(source)) =>
        /\ ~last.ok
        /\ last.err = "unsupported encoding verison"
        /\ tables = create(schema).tables

\* the ids of the pairs or rows yielded
idsOf(out) == [n \in DOMAIN out |-> out[n].id]

\* the bytes of the elements from the n-th on, each after the delta of its
\* id: the id itself for the first, id - previous - 1 for the others
RECURSIVE deltaBytes(_, _, _)
deltaBytes(out, n, delta) ==
    IF n > Len(out) THEN <<>>
    ELSE varintEncode(out[n].id - delta) \o out[n].buffer
         \o deltaBytes(out, n + 1, out[n].id + 1)

\* C19: in every run of forElements during an import the ids are strictly
\* increasing and forRows yields its rows under the same ids in the same
\* order, which are the ids stored when the import succeeds; when the
\* stream is a valid encoded instance every class is
\* decoded, and the stream is the version, then for each class the count
\* of its elements and each element after the delta of its id
DeltaRule ==
    last.op = "import" =>
        Bind(decoded(schema, source), LAMBDA runs :
            /\ \A c \in DOMAIN runs :
                  /\ ascending(idsOf(runs[c].out))
                  /\ \A n \in DOMAIN runs[c].out : runs[c].out[n].id >= 0
                  /\ idsOf(runs[c].rows)
                        = SubSeq(idsOf(runs[c].out), 1, Len(runs[c].rows))
            /\ last.ok =>
                  \A c \in DOMAIN runs :
                      idsOf(runs[c].rows) = scan(connection, c - 1)
            /\ (buffers(source) /\ imported \in encodings(schema)) =>
                  /\ Len(runs) = Len(schema)
                  /\ \A c \in DOMAIN runs :
                        runs[c].err = "" /\ Len(runs[c].rows) = Len(runs[c].out)
                  /\ imported
                        = varintEncode(version)
                          \o Flatten([c \in DOMAIN runs |->
                                varintEncode(Len(runs[c].out))
                                \o deltaBytes(runs[c].out, 1, 0)]))

\* C19, its case: the import of a valid encoded instance has decoded a
\* class of two elements, the second under the id after the first, and a
\* class whose first element has a delta above 0
DeltasDecoded ==
    /\ last.op = "import"
    /\ imported \in encodings(schema)
    /\ \E c \in DOMAIN decoded(schema, source) :
          idsOf(decoded(schema, source)[c].rows) = <<0, 1>>
    /\ \E c \in DOMAIN decoded(schema, source) :
          idsOf(decoded(schema, source)[c].rows) = <<MaxId>>

(***************************************************************************)
(* Properties of migrate.                                                  *)
(***************************************************************************)
\* the connection of the handle that migrate returned
targetConnection == [tables |-> last.target, fk |-> TRUE, iterators |-> 0]

\* the rule has written every element of its source class: under the same
\* id the target class holds the value of the rule's expression with the
\* rule's identifier bound to the element, and the target class holds as
\* many elements as the source class
ruleMigrated(mapping, map) ==
    Bind(entries(schema, connection, map.source), LAMBDA e :
        /\ e.ok
        /\ \A n \in DOMAIN e.out :
              Bind(applyExpression(schema, connection, map.value,
                      classType(mapping.target, indexOfKey(mapping.target, map.target)),
                      map.id :> [type |-> classType(schema,
                                                    indexOfKey(schema, map.source)),
                                 value |-> e.out[n].value]),
                   LAMBDA v :
                      /\ v.ok
                      /\ get(mapping.target, targetConnection, map.target, e.out[n].id)
                            = [ok |-> TRUE, err |-> "", value |-> v.value])
        /\ count(mapping.target, targetConnection, map.target)
              = count(schema, connection, map.source))

\* C20: a migrate with a mapping from the schema of the handle returns a
\* target handle in which every rule has written every element of its
\* source class under the same id
MigrateWritesEveryElement ==
    (last.op = "migrate" /\ last.mapping \in Mappings
        /\ last.mapping.source = schema) =>
        /\ last.ok
        /\ \A k \in DOMAIN last.mapping.rules :
              ruleMigrated(last.mapping, last.mapping.rules[k])

\* the same for the mappings whose target schema has no reference
MigrateWithoutReferences ==
    (last.op = "migrate" /\ last.mapping \in Mappings
        /\ last.mapping.source = schema
        /\ last.mapping.target # LibrarySchema) =>
        /\ last.ok
        /\ \A k \in DOMAIN last.mapping.rules :
              ruleMigrated(last.mapping, last.mapping.rules[k])

(***************************************************************************)
(* Properties of the mapping evaluator.                                    *)
(***************************************************************************)
genderType == typeAt(classType(PersonSchema, 0).components, "schema:gender")

\* the environment of the rule of the gender mapping for a person
personEnvironment(value) ==
    "person" :> [type |-> classType(PersonSchema, 0), value |-> value]

\* the cases that the match is evaluated with: those of the gender mapping,
\* the same without one of them, and with a case that reads the name of the
\* person through the identifier of the rule
caseSets ==
    {genderCases}
    \cup {without(genderCases, key) : key \in DOMAIN genderCases}
    \cup {[genderCases EXCEPT !["schema:Male"] =
                [id |-> "gender",
                 value |-> term("person", <<projection("schema:name")>>)]]}

\* the match on the gender of the person, evaluated at the type string
matched(value, cases) ==
    applyExpression(schema, connection,
                    match("person", <<projection("schema:gender")>>, cases),
                    literal(xsdString), personEnvironment(value))

\* what the match is to return for the gender coproduct(key, v): the value
\* of the expression of the case of the key, with the identifier of the
\* case bound to the type of the option and to v on top of the environment
caseValue(value, cases, gender) ==
    applyExpression(schema, connection, cases[gender.key].value, literal(xsdString),
        (cases[gender.key].id :>
            [type |-> typeAt(genderType.options, gender.key), value |-> gender.value])
        @@ personEnvironment(value))

\* the string that the cases of the model give for the gender
flattened(value, cases, gender) ==
    IF cases[gender.key].value.kind = "literal"
    THEN literalValue(cases[gender.key].value.value)
    ELSE IF cases[gender.key].value.id = "gender" THEN gender.value
    ELSE value.components["schema:name"]

\* C21: for every stored person with the gender coproduct(k, v) and every
\* set of cases, the match on the gender returns the value of the case of
\* k, with the identifier of the case bound to the option's type and to v
\* on top of the environment, and fails when there is no case for k; the
\* match on the name, which is no coproduct, fails
MatchEvaluatesCase ==
    schema = PersonSchema =>
        \A value \in Range(values(schema, connection, "schema:Person").out) :
            /\ \A cases \in caseSets :
                  Bind(value.components["schema:gender"], LAMBDA gender :
                      IF gender.key \in DOMAIN cases
                      THEN /\ matched(value, cases).ok
                           /\ matched(value, cases) = caseValue(value, cases, gender)
                           /\ matched(value, cases).value
                                 = flattened(value, cases, gender)
                      ELSE /\ ~matched(value, cases).ok
                           /\ matched(value, cases).err = "missing case for option")
            /\ ~applyExpression(schema, connection,
                    match("person", <<projection("schema:name")>>, genderCases),
                    literal(xsdString), personEnvironment(value)).ok

\* C21, its case: a person whose gender is the string option was migrated
\* with the gender mapping, and the target holds the string under the id
MatchedOnStoredPerson ==
    /\ schema = PersonSchema
    /\ last.op = "migrate" /\ last.ok /\ last.mapping = GenderMapping
    /\ \E id \in Ids :
          /\ get(schema, connection, "schema:Person", id).ok
          /\ get(schema, connection, "schema:Person", id)
                .value.components["schema:gender"].key = "schema:value"
          /\ get(FlatPersonSchema, targetConnection, "ex:person", id)
                .value.components["ex:gender"]
                = get(schema, connection, "schema:Person", id)
                    .value.components["schema:gender"].value


\* the body of export has constructed its encoder, or failed to
constructed == generator.pc \notin {"none", "start"}

\* the chunk size asked of export is an integer of at least minChunkSize
acceptable(options) == isSafeInteger(options) /\ options.chunkSize >= minChunkSize

\* the constructor of the encoder threw
rejected == generator.pc = "failed" /\ generator.out = <<>> /\ generator.err # ""

\* C25: export accepts a supplied chunkSize only when it is an integer of
\* at least 8 and rejects every other supplied value, 0 included, and the
\* default 1024 is used only when no chunkSize is supplied
ChunkSizeChecked ==
    constructed =>
        /\ (supplied(generator.options) /\ ~acceptable(generator.options)) => rejected
        /\ (supplied(generator.options) /\ acceptable(generator.options)) =>
              generator.encoder.chunkSize = generator.options.chunkSize
        /\ (~rejected /\ generator.encoder.chunkSize = defaultChunkSize) =>
              ~supplied(generator.options)

\* every supplied chunk size other than 0 is accepted exactly when it is an
\* integer of at least 8, and 0 is taken as the default
ChunkSizeCheckedButZero ==
    constructed =>
        /\ (supplied(generator.options) /\ ~acceptable(generator.options)
                /\ ~falsy(generator.options)) => rejected
        /\ (supplied(generator.options) /\ acceptable(generator.options)) =>
              /\ generator.encoder.chunkSize = generator.options.chunkSize
              /\ generator.err # "encoder chunk size must be an integer"
              /\ generator.err # "encoder chunk size must be at least 8 bytes"
        /\ (supplied(generator.options) /\ falsy(generator.options)) =>
              generator.encoder.chunkSize = defaultChunkSize
        /\ ~supplied(generator.options) =>
              generator.encoder.chunkSize = defaultChunkSize

\* the last call was made on a closed encoder
afterClose == last.op # "new" /\ last.before.closed

\* the last call threw 'stream closed' and no chunk came out of it
refused == ~last.ok /\ last.err = "stream closed" /\ last.chunks = <<>>

\* C26: close emits the bytes still held in the buffer as one final chunk,
\* and no chunk when the buffer is empty, and after close every further
\* write operation, a second close included, fails with 'stream closed'
\* without emitting anything
ClosedForGood ==
    /\ (last.op = "close" /\ ~last.before.closed) =>
          /\ last.ok
          /\ generator.encoder.closed
          /\ last.chunks = IF last.before.offset = 0 THEN <<>>
                           ELSE <<flushChunk(last.before)>>
    /\ afterClose => refused

\* the last call wrote a value that has no bytes
RECURSIVE empty(_)
empty(type) ==
    /\ type.kind = "product"
    /\ \A i \in DOMAIN type.components : empty(type.components[i].type)

\* close emits what the buffer holds, and after close every write
\* operation is refused but encodeValue of a value that has no bytes, which
\* returns without a chunk
ClosedButForUnit ==
    /\ (last.op = "close" /\ ~last.before.closed) =>
          /\ last.ok
          /\ generator.encoder.closed
          /\ last.chunks = IF last.before.offset = 0 THEN <<>>
                           ELSE <<flushChunk(last.before)>>
    /\ afterClose =>
          /\ generator.encoder = last.before
          /\ IF last.op = "encodeValue" /\ empty(Head(SubSeq(last.calls, Len(last.calls), Len(last.calls))).type)
             THEN last.ok /\ last.chunks = <<>>
             ELSE refused

\* the integer lies in the safe range [-(2^53 - 1), 2^53 - 1]
safe(value) == ~lessBits(ones(significand), value.bits)

\* the 64-bit literal of the imported stream, which holds one element, and
\* the index of its class
importedIndex == IF imported[2] = 1 THEN 0 ELSE 1
importedLiteral ==
    Bind(SubSeq(imported, Len(imported) - (IF importedIndex = 0 THEN 8 ELSE 7),
                Len(imported) - (IF importedIndex = 0 THEN 1 ELSE 0)),
         LAMBDA bytes : IF importedIndex = 0 THEN readBigInt64BE(bytes)
                        ELSE readBigUInt64BE(bytes))

\* import stored the wire integer as it is
importedExactly ==
    /\ last.ok
    /\ DOMAIN tables[importedIndex] = {0}
    /\ tables[importedIndex][0][<<>>] = IntCell(importedLiteral)

\* set stored the literal that was passed to it as it is
setExactly ==
    /\ last.ok
    /\ last.id \in DOMAIN tables[indexOfKey(schema, last.key)]
    /\ tables[indexOfKey(schema, last.key)][last.id][<<>>] = IntCell(decimal(last.value))

\* C27: reading or writing a 64-bit integer literal whose value lies outside
\* the safe range fails, on import and on set, and a value in the range is
\* stored as it is: nothing is stored truncated or rounded
SafeIntegersOnly ==
    /\ last.op = "import" =>
            IF safe(importedLiteral) THEN importedExactly ELSE ~last.ok
    /\ last.op = "set" =>
            IF safe(decimal(last.value)) THEN setExactly ELSE ~last.ok
    /\ \A index \in DOMAIN tables : \A id \in DOMAIN tables[index] :
            safe(tables[index][id][<<>>].int)

\* the test of the xsd:long branch is one-sided: import and set keep to the
\* safe range but for an xsd:long below it on the wire, which import stores
\* as the double nearest to it
SafeIntegersButBelow ==
    /\ last.op = "import" =>
            IF safe(importedLiteral) THEN importedExactly
            ELSE IF importedIndex = 0 /\ importedLiteral.negative
            THEN /\ last.ok
                 /\ tables[0][0][<<>>] = IntCell(Number(importedLiteral))
            ELSE ~last.ok
    /\ last.op = "set" =>
            /\ IF safe(decimal(last.value)) THEN setExactly ELSE ~last.ok
            /\ \A index \in DOMAIN tables : \A id \in DOMAIN tables[index] :
                    safe(tables[index][id][<<>>].int)

\* the last call, and whether it encoded a literal of fixed width on an
\* open encoder without an error
lastCall == last.calls[Len(last.calls)]
fixedWritten ==
    /\ last.op = "encodeValue"
    /\ last.ok
    /\ lastCall.type.kind = "literal"
    /\ fixedSizeLiterals(lastCall.type.datatype) > 0

\* the bytes the last call added to the output: those of its chunks and
\* those held in the buffer, less those held before
appended ==
    Len(concat(last.chunks)) + generator.encoder.offset - last.before.offset

\* the offset moved on by the width, from where allocate left it
advancedBy(width) ==
    generator.encoder.offset = (IF last.chunks = <<>> THEN last.before.offset ELSE 0) + width

\* C28: encoding a fixed-width literal appends exactly the datatype's byte
\* width to the output and advances the offset of the buffer by exactly
\* that width, for every fixed-width datatype
FixedWidthWritten ==
    fixedWritten =>
        /\ appended = fixedSizeLiterals(lastCall.type.datatype)
        /\ advancedBy(fixedSizeLiterals(lastCall.type.datatype))

\* every fixed-width datatype but xsd:byte takes its width, and xsd:byte
\* takes one byte more
FixedWidthButByte ==
    fixedWritten =>
        Bind(fixedSizeLiterals(lastCall.type.datatype)
                + (IF lastCall.type.datatype = xsdByte THEN 1 ELSE 0),
             LAMBDA width : appended = width /\ advancedBy(width))

\* the bytes that a step writes into the buffer
stepBytes(step) ==
    CASE step.op = "varint" -> varintEncode(step.value)
      [] step.op = "fixed" -> fixedBytes(step.datatype, step.value)
      [] step.op = "buffer" -> step.value
      [] OTHER -> <<>>

\* the bytes written by the calls, in order
writtenBy(calls) ==
    Flatten([i \in DOMAIN calls |->
        Flatten([j \in DOMAIN stepsOf(calls[i]) |-> stepBytes(stepsOf(calls[i])[j])])])

\* the chunks of the same calls on an encoder of another chunk size
RECURSIVE replay(_, _, _)
replay(e, calls, out) ==
    IF calls = <<>> THEN out
    ELSE Bind(perform(e, stepsOf(Head(calls)), <<>>), LAMBDA r :
            replay(r.encoder, Tail(calls), out \o r.out))

\* the encoder was closed by the last call, after writes only
closedNow == last.op = "close" /\ last.ok

\* the calls before the close wrote an xsd:byte literal
RECURSIVE hasByte(_)
hasByte(type) ==
    CASE type.kind = "literal" -> type.datatype = xsdByte
      [] type.kind = "product" ->
            \E i \in DOMAIN type.components : hasByte(type.components[i].type)
      [] OTHER -> FALSE
wroteByte ==
    \E i \in DOMAIN last.calls :
        last.calls[i].name = "encodeValue" /\ hasByte(last.calls[i].type)

\* C29: for every sequence of writes and every chunk size, the chunks
\* emitted up to and including that of close concatenate to the bytes
\* written, in order, so the bytes do not depend on the chunk size
ChunksAreTheBytesWritten ==
    closedNow =>
        /\ concat(generator.out) = writtenBy(last.calls)
        /\ \A options \in exportOptions :
              concat(replay(Encoder(options), last.calls, <<>>)) = concat(generator.out)

\* the chunks concatenate to the bytes written whenever no xsd:byte
\* literal is among them
ChunksAreTheBytesButByte ==
    (closedNow /\ ~wroteByte) =>
        /\ concat(generator.out) = writtenBy(last.calls)
        /\ \A options \in exportOptions :
              concat(replay(Encoder(options), last.calls, <<>>)) = concat(generator.out)

\* C30: for every sequence of unsigned integers up to 2^53 - 1 encoded as
\* varints and concatenated, and every splitting of the bytes into
\* non-empty chunks, one byte per chunk included, successive
\* decodeUnsignedVarint calls return exactly those integers in order
VarintsDecoded ==
    /\ Len(last.returned) <= Len(last.integers)
    /\ \A i \in DOMAIN last.returned :
          last.returned[i] = numberOfBits(last.integers[i])
    /\ (~last.ok /\ last.op = "decodeUnsignedVarint") =>
          /\ Len(last.returned) = Len(last.integers)
          /\ last.err = "could not decode stream: iterable ended early"

\* two integers, the second of 8 bytes, were read from one byte per chunk
VarintsInSingleBytes ==
    /\ Len(last.returned) = MaxVarints
    /\ last.integers[MaxVarints] = ones(significand)
    /\ last.returned[MaxVarints] = wide(FALSE, ones(significand))
    /\ \A i \in DOMAIN source : Len(source[i]) = 1


\* a number is held as an integer below 32 bits and as its bits from there
atMostCeiling(i) ==
    Len(last.integers[i]) < 32 \/ isSafeIntegerNumber(last.returned[i])
\* the varint of more than 8 bytes is never returned, and the call that
\* reads it throws the range error
refusedPastEight ==
    /\ \A i \in DOMAIN last.integers :
          Len(leb128(last.integers[i])) > 8 => Len(last.returned) < i
    /\ (/\ ~last.ok
        /\ Len(last.returned) < Len(last.integers)
        /\ Len(leb128(last.integers[Len(last.returned) + 1])) > 8) =>
          last.err = "could not decode unsigned varint"

\* C31: readUnsignedVarint fails with "could not decode unsigned varint"
\* when a varint has more than 8 bytes, and every value it returns is at
\* most 2^53 - 1
VarintBounded ==
    /\ \A i \in DOMAIN last.returned : atMostCeiling(i)
    /\ refusedPastEight

\* the range error alone: a varint of more than 8 bytes is refused
VarintOfNineBytesRefused == refusedPastEight /\ last.op \in {"new", "decodeUnsignedVarint"}

\* a varint of 9 bytes was refused after one of 8 bytes was returned
NineBytesAfterEight ==
    /\ last.op = "decodeUnsignedVarint"
    /\ Len(last.returned) = 1
    /\ last.integers = <<ones(56), zeros(56) \o <<1>>>>
    /\ last.err = "could not decode unsigned varint"

\* the bytes that the decoder has not scanned: the rest of the last chunk
\* and the chunks of the source
ahead(d) ==
    (IF d.chunks = <<>> THEN <<>>
     ELSE subarray(lastChunk(d), d.endOffset, Len(lastChunk(d))))
    \o concat(d.source)

\* C32: for every splitting of a byte stream into non-empty chunks, the
\* skips since the last flush then collect return exactly the next unread
\* bytes of the stream, as many as were skipped, and flush discards exactly
\* those, so that the rounds partition the stream in order; a skip past the
\* end of the stream, and only that, fails
SkippedBytesCollected ==
    last.op \in {"skip", "collect", "flush"} =>
        /\ (last.op = "collect") =>
              last.decoder.buffer
                = SubSeq(last.bytes, last.consumed + 1, last.consumed + last.requested)
        /\ last.ok =>
              ahead(last.decoder)
                = SubSeq(last.bytes, last.consumed + last.requested + 1, Len(last.bytes))
        /\ last.ok <=> last.consumed + last.requested <= Len(last.bytes)
        /\ ~last.ok => last.err = "could not decode stream: iterable ended early"

\* the second round collected two bytes that lie in two chunks
CollectedAcrossChunks ==
    /\ last.op = "collect"
    /\ last.consumed > 0
    /\ last.requested = 2
    /\ Len(last.decoder.chunks) = 2
    /\ last.decoder.startOffset > 0
    /\ last.decoder.buffer = SubSeq(last.bytes, last.consumed + 1, last.consumed + 2)

\* C34: once a chunk was pulled, byteLength is the number of bytes from
\* startOffset in the first buffered chunk to endOffset in the last one,
\* and endOffset is at most the length of the last chunk; after flush
\* byteLength is 0 and at most one chunk is kept, the partly consumed one
OffsetsDelimitRange ==
    ("requested" \in DOMAIN last) =>
        /\ last.decoder.chunks # <<>> =>
              /\ last.decoder.byteLength
                    = Len(concat(last.decoder.chunks)) - last.decoder.startOffset
                      - (Len(lastChunk(last.decoder)) - last.decoder.endOffset)
              /\ last.decoder.endOffset <= Len(lastChunk(last.decoder))
              /\ last.decoder.startOffset >= 0
        /\ last.op = "flush" =>
              /\ last.decoder.byteLength = 0
              /\ Len(last.decoder.chunks) <= 1
              /\ last.decoder.chunks # <<>> =>
                    /\ last.decoder.endOffset > 0
                    /\ last.decoder.endOffset < Len(lastChunk(last.decoder))

\* a range over three chunks that starts and ends inside a chunk
RangeOverThreeChunks ==
    /\ "requested" \in DOMAIN last
    /\ Len(last.decoder.chunks) = 3
    /\ last.decoder.byteLength = 3
\* a flush kept the partly consumed chunk
FlushedInsideChunk ==
    /\ "requested" \in DOMAIN last
    /\ last.op = "flush"
    /\ Len(last.decoder.chunks) = 1
    /\ last.decoder.startOffset = 2

\* C33: for every chunking, each round of forElements yields exactly the
\* bytes of the value of its element: the scan directed by the type ends
\* at the last byte of the value, and the next read starts at the byte
\* after it
ElementBytesYielded ==
    ("yielded" \in DOMAIN last) =>
        /\ last.ok
        /\ \A i \in DOMAIN last.yielded :
              /\ last.yielded[i].buffer = valueBytes(last.type, last.elements[i].value)
              /\ last.yielded[i].delta = last.elements[i].delta
        /\ ahead(last.decoder)
              = elementBytesFrom(last.type, last.elements, Len(last.yielded) + 1)

\* the second product was yielded from one byte per chunk
ProductFromSingleBytes ==
    /\ "yielded" \in DOMAIN last
    /\ last.type.kind = "product"
    /\ Len(last.yielded) = MaxElements
    /\ Len(source) = Len(concat(source))
    /\ Len(last.yielded[MaxElements].buffer) = 3

\* the columns that setSchema declares for a type: name and NOT NULL
declared(type) ==
    Bind(getProperties(type, <<>>, FALSE), LAMBDA ps :
        {[name |-> getPropertyName(ps[i].path), notNull |-> ~ps[i].optional] :
            i \in DOMAIN ps})

\* C35: for every value conforming to a type, the row built by
\* serializeValue has exactly the columns that getProperties yields for
\* the type, and holds null only in columns declared without NOT NULL,
\* those under a coproduct option
RowHasDeclaredColumns ==
    (last.op = "serializeValue" /\ "row" \in DOMAIN last) =>
        /\ last.ok
        /\ DOMAIN last.row = {c.name : c \in declared(last.type)}
        /\ \A c \in declared(last.type) : c.notNull => last.row[c.name] # Null

\* a row with a null under an option that was not chosen, inside a
\* component of a chosen option
NullUnderOtherOption ==
    /\ last.op = "serializeValue"
    /\ "row" \in DOMAIN last
    /\ last.type.kind = "coproduct"
    /\ Cardinality(DOMAIN last.row) = 9
    /\ last.value.key = "ex:right"
    /\ last.value.value.components["ex:b"].key = "ex:flag"
    /\ last.row[<<0>>] = Null
    /\ last.row[<<1, 1, 2>>] = Null
    /\ last.row[<<1, 1, 1>>] # Null

\* the number of chunks that the decoder has taken from the source
pulled == Len(source) - Len(last.decoder.source)

\* C36: the decoder takes a chunk from the source only when it needs a
\* byte that is not buffered yet: once the bytes asked for are scanned, the
\* chunks before the last one taken hold fewer bytes than were asked for,
\* so no chunk beyond the one with the last byte was taken and the source
\* still holds every later chunk
PulledOnlyWhenNeeded ==
    ("requested" \in DOMAIN last) =>
        /\ pulled \in 0 .. Len(source)
        /\ last.decoder.source = SubSeq(source, pulled + 1, Len(source))
        /\ pulled > 0 =>
              Len(concat(SubSeq(source, 1, pulled - 1)))
                < last.consumed + last.requested

\* the scan ended at the last byte of the first chunk, and the second
\* chunk was left in the source
ScannedToChunkEnd ==
    /\ "requested" \in DOMAIN last
    /\ last.op = "flush"
    /\ Len(source) = 2
    /\ last.consumed = Len(source[1])
    /\ last.decoder.source = <<source[2]>>
    /\ last.decoder.chunks = <<>>

\* the offset and the chunks emitted so far are within the chunk size
withinChunkSize ==
    /\ generator.encoder.offset \in 0 .. generator.encoder.chunkSize
    /\ \A i \in DOMAIN generator.out :
          Len(generator.out[i]) \in 1 .. generator.encoder.chunkSize

\* C37: in every encoder state 0 <= offset <= chunkSize, and every chunk
\* emitted has a length between 1 and chunkSize, so that no chunk of
\* length zero is emitted
OffsetWithinChunkSize == (generator.pc = "encoder") => withinChunkSize

\* the same whenever no xsd:byte literal was written
OffsetWithinButByte == (generator.pc = "encoder" /\ ~wroteByte) => withinChunkSize

\* no chunk of length zero is emitted, whatever was written
NoEmptyChunk ==
    (generator.pc = "encoder") =>
        \A i \in DOMAIN generator.out : Len(generator.out[i]) >= 1

\* a chunk of exactly chunkSize bytes was emitted and more follows
FullChunkEmitted ==
    /\ generator.pc = "encoder"
    /\ ~wroteByte
    /\ Len(generator.out) = 2
    /\ Len(generator.out[1]) = generator.encoder.chunkSize

\* the import has returned the handle or has thrown
settled == "pc" \in DOMAIN last /\ last.pc \in {"returned", "threw"}

\* a step of the import that does not throw leaves fewer bytes ahead of
\* the decoder: it consumed at least one
consumes ==
    ("pc" \in DOMAIN last /\ last.pc \in {"version", "count", "round"}
     /\ last'.pc # "threw") =>
        Len(ahead(last'.m.decoder)) < Len(ahead(last.m.decoder))

\* what an import in progress has left to do: two for every byte ahead of
\* the decoder, and one until it has returned or thrown
variant == 2 * Len(ahead(last.m.decoder)) + (IF settled THEN 0 ELSE 1)

\* C39: for every finite source and every chunking import terminates, it
\* returns the handle or throws: every step of an import lowers a natural
\* number that is twice the bytes of the source plus one when the import
\* is called, because each step of its loops that does not throw consumes
\* at least one byte of the source
ImportTerminates ==
    [][("pc" \in DOMAIN last) =>
          /\ variant' < variant
          /\ variant' >= 0
          /\ consumes]_vars

\* an import of one byte per chunk has returned after two rounds
ReturnedFromSingleBytes ==
    /\ last.op = "import" /\ "pc" \in DOMAIN last
    /\ last.pc = "returned"
    /\ Len(source) = Len(concat(source))
    /\ Cardinality(DOMAIN tables[0]) + Cardinality(DOMAIN tables[Len(schema) - 1]) >= 2

\* the steps end as the import of the whole source does
StepsAgreeWithImport ==
    (last.op = "import" /\ "pc" \in DOMAIN last /\ settled) =>
        Bind(import(schema, source), LAMBDA r :
            /\ r.ok = last.ok
            /\ r.err = last.err
            /\ r.conn.tables = tables)

(***************************************************************************)
(* Migration and the references of the target.                             *)
(***************************************************************************)
\* the elements that rule k of the mapping writes, in the order it writes
\* them: [id, value] with the value of the rule's expression
mappedBy(mapping, k) ==
    Bind(entries(schema, connection, mapping.rules[k].source), LAMBDA e :
        [n \in DOMAIN e.out |->
            [id |-> e.out[n].id,
             v |-> applyExpression(schema, connection, mapping.rules[k].value,
                      classType(mapping.target,
                                indexOfKey(mapping.target, mapping.rules[k].target)),
                      mapping.rules[k].id
                         :> [type |-> classType(schema,
                                        indexOfKey(schema, mapping.rules[k].source)),
                             value |-> e.out[n].value])]])

\* the reference points to an element that the rules write; with `earlier`
\* to one that is written before element n of rule k, or to that element
pointsToWritten(mapping, ref, k, n, earlier) ==
    \E k2 \in DOMAIN mapping.rules : \E n2 \in DOMAIN mappedBy(mapping, k2) :
        /\ mapping.rules[k2].target = ref.key
        /\ mappedBy(mapping, k2)[n2].id = ref.id
        /\ earlier => (k2 < k \/ (k2 = k /\ n2 <= n))

\* every expression evaluates and every reference of the mapped target
\* instance is resolved
targetConsistent(mapping, earlier) ==
    \A k \in DOMAIN mapping.rules : \A n \in DOMAIN mappedBy(mapping, k) :
        /\ mappedBy(mapping, k)[n].v.ok
        /\ \A ref \in referencesOf(
                        classType(mapping.target,
                                  indexOfKey(mapping.target, mapping.rules[k].target)),
                        mappedBy(mapping, k)[n].v.value) :
              pointsToWritten(mapping, ref, k, n, earlier)

\* C40: migrate succeeds whenever the mapped target instance is
\* referentially consistent, also when a target element references an
\* element that is written later in the migration
MigrateOfConsistentTarget ==
    (/\ last.op = "migrate"
     /\ last.mapping \in Mappings
     /\ last.mapping.source = schema
     /\ targetConsistent(last.mapping, FALSE)) => last.ok

\* migrate succeeds when every reference of the mapped target instance
\* points to an element written before it, or to itself
MigrateOfOrderedTarget ==
    (/\ last.op = "migrate"
     /\ last.mapping \in Mappings
     /\ last.mapping.source = schema
     /\ targetConsistent(last.mapping, TRUE)) => last.ok

\* a migrate has succeeded on a target whose books reference persons
\* written before them
MigratedInOrder ==
    /\ last.op = "migrate" /\ last.ok
    /\ last.mapping.target = LibrarySchema
    /\ targetConsistent(last.mapping, TRUE)
    /\ \E id \in Ids : has(LibrarySchema, targetConnection, "ex:Book", id)
    /\ \E id \in Ids : has(LibrarySchema, targetConnection, "ex:Person", id)

(***************************************************************************)
(* Properties of set, push and merge.                                      *)
(***************************************************************************)
\* has, get and count answer the same on two connections
sameAnswers(sch, a, b) ==
    \A key \in classKeys(sch) :
        /\ count(sch, a, key) = count(sch, b, key)
        /\ \A id \in Ids :
              /\ has(sch, a, key, id) = has(sch, b, key, id)
              /\ get(sch, a, key, id) = get(sch, b, key, id)

\* the references held by the stored element (key, id)
storedReferences(sch, conn, key, id) ==
    referencesOf(classType(sch, indexOfKey(sch, key)), get(sch, conn, key, id).value)

\* every element of the call has a class key and a value conforming to it
conformingCall(sch, elements) ==
    \A n \in DOMAIN elements :
        /\ elements[n].key \in classKeys(sch)
        /\ elements[n].value \in conforming(sch, elements[n].key)

\* the references held by the elements of the call
callReferences(sch, elements) ==
    UNION {referencesOf(classType(sch, indexOfKey(sch, elements[n].key)),
                        elements[n].value) : n \in DOMAIN elements}

\* the reference is resolved by a stored element or by one of the call
resolved(sch, conn, elements, ref) ==
    \/ has(sch, conn, ref.key, ref.id)
    \/ \E n \in DOMAIN elements : elements[n].key = ref.key /\ elements[n].id = ref.id

\* element n of the call is stored, with its value unless a later element
\* of the call has the same key and id
visible(sch, conn, elements, n) ==
    /\ has(sch, conn, elements[n].key, elements[n].id)
    /\ (\A m \in DOMAIN elements :
            m > n => ~(elements[m].key = elements[n].key /\ elements[m].id = elements[n].id))
       => get(sch, conn, elements[n].key, elements[n].id) =
            [ok |-> TRUE, err |-> "", value |-> elements[n].value]

\* C2: for every class key, id and conforming value, when set succeeds then
\* get returns a value structurally equal to the one set and has is true,
\* whatever the id held before
SetThenGet ==
    \A key \in classKeys(schema), id \in Ids :
        \A value \in conforming(schema, key) :
            Bind(set(schema, connection, key, id, value), LAMBDA r :
                r.ok => /\ has(schema, r.conn, key, id)
                        /\ get(schema, r.conn, key, id) =
                              [ok |-> TRUE, err |-> "", value |-> value])

\* C2, its case: a set has succeeded, and a stored coproduct element can be
\* overwritten with a value of another option, which get then returns
SetOverwritesOption ==
    /\ last.op = "set" /\ last.ok
    /\ \E key \in classKeys(schema), id \in Ids :
          \E value \in conforming(schema, key) :
              /\ value.kind = "coproduct"
              /\ has(schema, connection, key, id)
              /\ get(schema, connection, key, id).value.key # value.key
              /\ set(schema, connection, key, id, value).ok
              /\ get(schema, set(schema, connection, key, id, value).conn, key, id).value
                    = value

\* C4: a merge that fails leaves has, get and count as they were, and a
\* merge that succeeds leaves every element of the call visible
MergeAllOrNothing ==
    \A elements \in mergeArguments(schema) :
        Bind(merge(schema, connection, elements), LAMBDA r :
            IF r.ok
            THEN \A n \in DOMAIN elements : visible(schema, r.conn, elements, n)
            ELSE sameAnswers(schema, r.conn, connection))

\* C4, its case: a merge has failed, and a merge whose first element is
\* written before its second one throws leaves the first one absent
MergeRollsBack ==
    /\ last.op = "merge" /\ ~last.ok
    /\ \E elements \in mergeArguments(schema) :
          /\ Len(elements) = 2
          /\ set(schema, [connection EXCEPT !.fk = FALSE],
                 elements[1].key, elements[1].id, elements[1].value).ok
          /\ ~merge(schema, connection, elements).ok
          /\ ~has(schema, connection, elements[1].key, elements[1].id)
          /\ ~has(schema, merge(schema, connection, elements).conn,
                  elements[1].key, elements[1].id)

\* C5: a merge of conforming elements that hold a reference resolved
\* neither by a stored element nor by an element of the call fails with a
\* foreign-key error
MergeRejectsDangling ==
    \A elements \in mergeArguments(schema) :
        (/\ conformingCall(schema, elements)
         /\ \E ref \in callReferences(schema, elements) :
                ~resolved(schema, connection, elements, ref))
        => /\ ~merge(schema, connection, elements).ok
           /\ merge(schema, connection, elements).err = "FOREIGN KEY constraint failed"

\* C6: foreign-key enforcement is on after every merge, whether it
\* returned or threw
MergeRestoresEnforcement == last.op = "merge" => fk

\* C7: in every state of the handle, a set of a conforming value that holds
\* a reference to an id missing from the referenced class fails with a
\* foreign-key error and leaves has, get and count as they were
SetRejectsDangling ==
    \A key \in classKeys(schema), id \in Ids :
        \A value \in conforming(schema, key) :
            (\E ref \in referencesOf(classType(schema, indexOfKey(schema, key)), value) :
                /\ ~has(schema, connection, ref.key, ref.id)
                /\ ~(ref.key = key /\ ref.id = id))
            => Bind(set(schema, connection, key, id, value), LAMBDA r :
                    /\ ~r.ok
                    /\ r.err = "FOREIGN KEY constraint failed"
                    /\ sameAnswers(schema, r.conn, connection))

\* C8: a merge of conforming elements whose references are all resolved,
\* by a stored element or by an element of the call in any position,
\* succeeds and leaves every element of the call visible with its value
MergeAnyOrder ==
    \A elements \in mergeArguments(schema) :
        (/\ conformingCall(schema, elements)
         /\ \A ref \in callReferences(schema, elements) :
                resolved(schema, connection, elements, ref))
        => Bind(merge(schema, connection, elements), LAMBDA r :
                /\ r.ok
                /\ \A n \in DOMAIN elements : visible(schema, r.conn, elements, n))

\* C8, its case: a merge has succeeded with enforcement on, and two
\* absent elements of two classes that reference each other can be merged
\* in one call, the referencing one first
MergeMutualReferences ==
    /\ last.op = "merge" /\ last.ok /\ fk
    /\ \E elements \in mergeArguments(schema) :
          /\ Len(elements) = 2
          /\ conformingCall(schema, elements)
          /\ elements[1].key # elements[2].key
          /\ ~has(schema, connection, elements[1].key, elements[1].id)
          /\ ~has(schema, connection, elements[2].key, elements[2].id)
          /\ [key |-> elements[2].key, id |-> elements[2].id]
                \in callReferences(schema, <<elements[1]>>)
          /\ [key |-> elements[1].key, id |-> elements[1].id]
                \in callReferences(schema, <<elements[2]>>)
          /\ merge(schema, connection, elements).ok
          /\ visible(schema, merge(schema, connection, elements).conn, elements, 1)

\* C9: after every completed operation, every reference stored in any
\* class points to an id that exists in the referenced class
NoDanglingReference ==
    \A key \in classKeys(schema), id \in Ids :
        has(schema, connection, key, id) =>
            \A ref \in storedReferences(schema, connection, key, id) :
                has(schema, connection, ref.key, ref.id)

=============================================================================
